---------------------------- MODULE Spec2Model ----------------------------
(***************************************************************************)
(* A model of Tacent's formatted print engine (System/tPrint.cpp): the    *)
(* Receiver sink, the handler registry with its jump table, the format    *)
(* string scanner Process and the call shapes built on it (tvPrintf,      *)
(* tvsPrintf, tvcPrintf, tvfPrintf).                                      *)
(*                                                                         *)
(* Characters are their byte codes 0..255.  Memory that the program reads *)
(* but does not own (bytes after a format string's terminator, the int    *)
(* found below the jump table) is part of the state and is chosen freely  *)
(* in the initial state.                                                   *)
(***************************************************************************)
EXTENDS Integers, Sequences, FiniteSets, TLC

VARIABLES
    charSigned,     \* platform: plain char is a signed type
    strayInt,       \* platform: the int found when HandlerJumpTable is indexed below 0
    negTraps,       \* platform: negating the most negative int64 traps instead of wrapping
    windows,        \* platform: the build defines PLATFORM_WINDOWS
    ftype,          \* FindHandler: the argument
    fpc,            \* FindHandler: "idle", "call", "scan", "done"
    fres,           \* FindHandler: the returned entry (index into HandlerInfos) or nullptr
    foob,           \* FindHandler: the jump table was indexed outside [0, 255]
    fpath,          \* FindHandler: which return statement produced fres
    receiver,       \* the Receiver object
    dest,           \* the caller's character array that Receiver::String walks over
    delivered,      \* history: every character handed to a Receive call, in order
    mem,            \* the bytes at and after the format pointer (1-based)
    formatNull,     \* the format argument is a null pointer
    destNull,       \* the dest argument is a null pointer
    call,           \* which print function is running
    destSize,       \* its destSize argument
    pc,             \* position in the print function
    fpos,           \* Process: the format pointer, as an index into mem
    args,           \* the operands read from the va_list so far
    argi,           \* number of operands the running pass has consumed
    ret,            \* the value the print function returned
    hiRead,         \* history: highest index of mem read through the format pointer
    termSent,       \* history: null characters Process itself handed to Receive
    reqChars,       \* tvsPrintf(tString&): the count measured by the dry run
    pass,           \* tvsPrintf(tString&): 1 in the dry run, 2 in the rendering run
    measured,       \* history: the characters delivered during the dry run
    fault,          \* how the call died, "none" while it has not
    rname,          \* the handler called last
    rspec,          \* the FormatSpec it was passed
    rop,            \* the operand bytes its data pointer pointed to
    rbytes,         \* how many operand bytes va_arg extracted for it
    rconv,          \* the conversion buffer it handed to Receive(const tArray<char>&)
    locals,         \* HandlerHelper_FloatNormal run step by step: buf, value, precision
    config,         \* the process-wide settings of the print functions
    threads         \* the calls in progress on their own threads, each with its locals

platformVars == <<charSigned, strayInt, negTraps, windows>>
configVars   == <<config, threads>>
findVars     == <<ftype, fpc, fres, foob, fpath>>
sinkVars     == <<receiver, dest, delivered>>
callVars     == <<mem, formatNull, destNull, call, destSize, pc, fpos, args,
                  argi, ret, hiRead, termSent, reqChars, pass, measured, fault>>
renderVars   == <<rname, rspec, rop, rbytes, rconv, locals>>
vars         == <<platformVars, configVars, findVars, sinkVars, callVars, renderVars>>

----------------------------------------------------------------------------
(* Characters.                                                             *)

PrintableAscii ==
    << " ", "!", "dquote", "#", "$", "%", "&", "'", "(", ")", "*", "+", ",", "-", ".", "/",
       "0", "1", "2", "3", "4", "5", "6", "7", "8", "9", ":", ";", "<", "=", ">", "?",
       "@", "A", "B", "C", "D", "E", "F", "G", "H", "I", "J", "K", "L", "M", "N", "O",
       "P", "Q", "R", "S", "T", "U", "V", "W", "X", "Y", "Z", "[", "bslash", "]", "^", "_",
       "bquote", "a", "b", "c", "d", "e", "f", "g", "h", "i", "j", "k", "l", "m", "n", "o",
       "p", "q", "r", "s", "t", "u", "v", "w", "x", "y", "z", "{", "|", "}", "~" >>

\* The byte code of a printable character.
OrdTable ==
    [ch \in {PrintableAscii[i] : i \in 1..Len(PrintableAscii)} |->
        31 + (CHOOSE i \in 1..Len(PrintableAscii) : PrintableAscii[i] = ch)]
Ord(ch) == OrdTable[ch]

\* A C string literal as its bytes, terminator not included.
Txt(s) == [i \in 1..Len(s) |-> Ord(s[i])]

NUL == 0
nullptr == 0 - 1

Min(a, b) == IF a < b THEN a ELSE b
Max(a, b) == IF a > b THEN a ELSE b

tIsdigit(c) == c >= Ord("0") /\ c <= Ord("9")

----------------------------------------------------------------------------
(* The handler registry and its jump table.                                *)

PointerSize == 8

HandlerInfos ==
    << [SpecChar |-> Ord("b"), TypeBase |-> "Int", DefaultByteSize |-> 4,           Handler |-> "Handler_b"],
       [SpecChar |-> Ord("o"), TypeBase |-> "Int", DefaultByteSize |-> 4,           Handler |-> "Handler_o"],
       [SpecChar |-> Ord("d"), TypeBase |-> "Int", DefaultByteSize |-> 4,           Handler |-> "Handler_d"],
       [SpecChar |-> Ord("i"), TypeBase |-> "Int", DefaultByteSize |-> 4,           Handler |-> "Handler_i"],
       [SpecChar |-> Ord("u"), TypeBase |-> "Int", DefaultByteSize |-> 4,           Handler |-> "Handler_u"],
       [SpecChar |-> Ord("x"), TypeBase |-> "Int", DefaultByteSize |-> 4,           Handler |-> "Handler_x"],
       [SpecChar |-> Ord("X"), TypeBase |-> "Int", DefaultByteSize |-> 4,           Handler |-> "Handler_X"],
       [SpecChar |-> Ord("p"), TypeBase |-> "Int", DefaultByteSize |-> PointerSize, Handler |-> "Handler_p"],
       [SpecChar |-> Ord("e"), TypeBase |-> "Dbl", DefaultByteSize |-> 8,           Handler |-> "Handler_e"],
       [SpecChar |-> Ord("f"), TypeBase |-> "Dbl", DefaultByteSize |-> 8,           Handler |-> "Handler_f"],
       [SpecChar |-> Ord("g"), TypeBase |-> "Dbl", DefaultByteSize |-> 8,           Handler |-> "Handler_g"],
       [SpecChar |-> Ord("v"), TypeBase |-> "Flt", DefaultByteSize |-> 12,          Handler |-> "Handler_v"],
       [SpecChar |-> Ord("q"), TypeBase |-> "Flt", DefaultByteSize |-> 16,          Handler |-> "Handler_q"],
       [SpecChar |-> Ord("m"), TypeBase |-> "Flt", DefaultByteSize |-> 64,          Handler |-> "Handler_m"],
       [SpecChar |-> Ord("c"), TypeBase |-> "Int", DefaultByteSize |-> 4,           Handler |-> "Handler_c"],
       [SpecChar |-> Ord("s"), TypeBase |-> "Int", DefaultByteSize |-> PointerSize, Handler |-> "Handler_s"],
       [SpecChar |-> Ord("B"), TypeBase |-> "Int", DefaultByteSize |-> 4,           Handler |-> "Handler_B"] >>

NumHandlers == Len(HandlerInfos)

\* The table with the slot of x naming the entry of X: an edit of the
\* registry that was not carried over to the table.
HandlerJumpTable_Stale ==
    [c \in 1..256 |-> IF c = Ord("x") + 1 THEN 6 ELSE IF c = Ord("X") + 1 THEN 5 ELSE nullptr]

\* Slot c of the C array is element c + 1 here.
HandlerJumpTable ==
 << -1, -1, -1, -1, -1, -1, -1, -1, -1, -1, -1, -1, -1, -1, -1, -1,
    -1, -1, -1, -1, -1, -1, -1, -1, -1, -1, -1, -1, -1, -1, -1, -1,
    -1, -1, -1, -1, -1, -1, -1, -1, -1, -1, -1, -1, -1, -1, -1, -1,
    -1, -1, -1, -1, -1, -1, -1, -1, -1, -1, -1, -1, -1, -1, -1, -1,
    -1, -1, 16, -1, -1, -1, -1, -1, -1, -1, -1, -1, -1, -1, -1, -1,
    -1, -1, -1, -1, -1, -1, -1, -1,  6, -1, -1, -1, -1, -1, -1, -1,
    -1, -1,  0, 14,  2,  8,  9, 10, -1,  3, -1, -1, -1, 13, -1,  1,
     7, 12, -1, 15, -1,  4, 11, -1,  5, -1, -1, -1, -1, -1, -1, -1,
    -1, -1, -1, -1, -1, -1, -1, -1, -1, -1, -1, -1, -1, -1, -1, -1,
    -1, -1, -1, -1, -1, -1, -1, -1, -1, -1, -1, -1, -1, -1, -1, -1,
    -1, -1, -1, -1, -1, -1, -1, -1, -1, -1, -1, -1, -1, -1, -1, -1,
    -1, -1, -1, -1, -1, -1, -1, -1, -1, -1, -1, -1, -1, -1, -1, -1,
    -1, -1, -1, -1, -1, -1, -1, -1, -1, -1, -1, -1, -1, -1, -1, -1,
    -1, -1, -1, -1, -1, -1, -1, -1, -1, -1, -1, -1, -1, -1, -1, -1,
    -1, -1, -1, -1, -1, -1, -1, -1, -1, -1, -1, -1, -1, -1, -1, -1,
    -1, -1, -1, -1, -1, -1, -1, -1, -1, -1, -1, -1, -1, -1, -1, -1 >>

\* int(type): the value of a char as an int.
CharToInt(type) == IF charSigned /\ type >= 128 THEN type - 256 ELSE type

\* HandlerJumpTable[int(type)]: below the array the read finds a stray int.
JumpTableInBounds(type) == CharToInt(type) \in 0..255
JumpTableRead(type) ==
    IF JumpTableInBounds(type) THEN HandlerJumpTable[CharToInt(type) + 1] ELSE strayInt

\* The jump-table return: the index is an entry and that entry is for type.
FastPathHit(type, index) ==
    /\ index < NumHandlers
    /\ index >= 0
    /\ HandlerInfos[index + 1].SpecChar = type

RECURSIVE LinearScanFrom(_, _)
LinearScanFrom(type, i) ==
    IF i >= NumHandlers THEN nullptr
    ELSE IF HandlerInfos[i + 1].SpecChar = type THEN i
    ELSE LinearScanFrom(type, i + 1)

\* The full search of FindHandler.
LinearScan(type) == LinearScanFrom(type, 0)

\* FindHandler: the entry (0-based index into HandlerInfos) or nullptr.
FindHandler(type) ==
    IF type = NUL THEN nullptr
    ELSE IF FastPathHit(type, JumpTableRead(type)) THEN JumpTableRead(type)
    ELSE LinearScan(type)


----------------------------------------------------------------------------
(* Receiver.  The object holds the four fields of the class; Buffer also   *)
(* carries the elements of the tArray it points to.  String is the offset  *)
(* of the write pointer into the caller's array dest, nullptr when the     *)
(* receiver has no string.                                                  *)

NullStr == << nullptr >>       \* a null const char*
Uninit  == 0 - 2               \* a cell of dest that was never written

Receiver_count ==
    [Buffer |-> FALSE, Elems |-> << >>, ReceiveLimit |-> -1, String |-> nullptr, NumReceived |-> 0]
Receiver_buffer ==
    [Buffer |-> TRUE, Elems |-> << >>, ReceiveLimit |-> -1, String |-> nullptr, NumReceived |-> 0]
Receiver_string ==
    [Buffer |-> FALSE, Elems |-> << >>, ReceiveLimit |-> -1, String |-> 0, NumReceived |-> 0]
Receiver_limit(receiveLimit) ==
    [Buffer |-> FALSE, Elems |-> << >>, ReceiveLimit |-> receiveLimit, String |-> 0, NumReceived |-> 0]

GetNumReceived(r) == r.NumReceived

\* tMemcpy(String, str, n) and *String = c: cells off .. off+n-1 of d become chars.
WriteCells(d, off, chars) ==
    LET cells == IF Len(d) < off THEN d \o [i \in 1..(off - Len(d)) |-> Uninit] ELSE d
    IN  SubSeq(cells, 1, off) \o chars \o SubSeq(cells, off + Len(chars) + 1, Len(cells))

tStrlen(str) == Len(str)

\* A sink is the receiver together with the array its String points into.
Sink(r, d) == [r |-> r, d |-> d]

\* Receive(char) that still counts a character it has no room to store.
Receive_chr_CountsWhenFull(s, c) ==
    IF s.r.String # nullptr /\ s.r.ReceiveLimit # -1 /\ s.r.NumReceived >= s.r.ReceiveLimit
    THEN Sink([s.r EXCEPT !.NumReceived = @ + 1], s.d)
    ELSE Sink([s.r EXCEPT !.Elems = IF s.r.Buffer THEN Append(@, c) ELSE @,
                          !.String = IF s.r.String # nullptr THEN @ + 1 ELSE @,
                          !.NumReceived = @ + 1],
              IF s.r.String # nullptr THEN WriteCells(s.d, s.r.String, <<c>>) ELSE s.d)

\* void Receiver::Receive(char c)
Receive_chr(s, c) ==
    IF s.r.String # nullptr /\ s.r.ReceiveLimit # -1 /\ s.r.NumReceived >= s.r.ReceiveLimit
    THEN s
    ELSE Sink([s.r EXCEPT !.Elems = IF s.r.Buffer THEN Append(@, c) ELSE @,
                          !.String = IF s.r.String # nullptr THEN @ + 1 ELSE @,
                          !.NumReceived = @ + 1],
              IF s.r.String # nullptr THEN WriteCells(s.d, s.r.String, <<c>>) ELSE s.d)

\* The common tail of the two text overloads: append, copy, count len characters.
ReceiveCopy(s, str, len) ==
    Sink([s.r EXCEPT !.Elems = IF s.r.Buffer THEN @ \o SubSeq(str, 1, len) ELSE @,
                     !.String = IF s.r.String # nullptr THEN @ + len ELSE @,
                     !.NumReceived = @ + len],
         IF s.r.String # nullptr THEN WriteCells(s.d, s.r.String, SubSeq(str, 1, len)) ELSE s.d)

\* void Receiver::Receive(const char* str)
Receive_str(s, str) ==
    IF str = NullStr THEN s
    ELSE IF s.r.String # nullptr /\ s.r.ReceiveLimit # -1
    THEN IF s.r.NumReceived >= s.r.ReceiveLimit THEN s
         ELSE LET len == Min(tStrlen(str), s.r.ReceiveLimit - s.r.NumReceived)
              IN  IF len = 0 THEN s ELSE ReceiveCopy(s, str, len)
    ELSE IF tStrlen(str) = 0 THEN s ELSE ReceiveCopy(s, str, tStrlen(str))

\* Receive(str, numChars) that copies all numChars characters whatever the limit.
Receive_cnt_Unclamped(s, str, numChars) ==
    IF numChars = 0 \/ str = NullStr THEN s ELSE ReceiveCopy(s, str, numChars)

\* void Receiver::Receive(const char* str, int numChars)
Receive_cnt(s, str, numChars) ==
    IF numChars = 0 \/ str = NullStr THEN s
    ELSE IF s.r.String # nullptr /\ s.r.ReceiveLimit # -1
    THEN IF s.r.NumReceived >= s.r.ReceiveLimit THEN s
         ELSE ReceiveCopy(s, str, Min(numChars, s.r.ReceiveLimit - s.r.NumReceived))
    ELSE ReceiveCopy(s, str, numChars)

\* Receive(buf) that a receiver with neither buffer nor string ignores.
Receive_arr_CountOnlyIgnores(s, buf) ==
    IF s.r.String = nullptr /\ ~s.r.Buffer THEN s ELSE Receive_cnt(s, buf, Len(buf))

\* void Receiver::Receive(const tArray<char>& buf)
Receive_arr(s, buf) == Receive_cnt(s, buf, Len(buf))

\* One Receive call a handler makes, and the characters it hands over.
RxChr(c)      == [op |-> "chr", str |-> <<c>>, n |-> 1]
RxStr(str)    == [op |-> "str", str |-> str, n |-> 0]
RxCnt(str, n) == [op |-> "cnt", str |-> str, n |-> n]
RxArr(buf)    == [op |-> "arr", str |-> buf, n |-> Len(buf)]

Handed(rx) ==
    CASE rx.op = "chr" -> rx.str
      [] rx.op = "str" -> IF rx.str = NullStr THEN << >> ELSE rx.str
      [] rx.op = "cnt" -> IF rx.str = NullStr THEN << >> ELSE SubSeq(rx.str, 1, rx.n)
      [] rx.op = "arr" -> rx.str

Receive(s, rx) ==
    CASE rx.op = "chr" -> Receive_chr(s, rx.str[1])
      [] rx.op = "str" -> Receive_str(s, rx.str)
      [] rx.op = "cnt" -> Receive_cnt(s, rx.str, rx.n)
      [] rx.op = "arr" -> Receive_arr(s, rx.str)

\* The Receive calls of a handler, made in order.
RECURSIVE ReceiveAll(_, _)
ReceiveAll(s, rxs) ==
    IF rxs = << >> THEN s ELSE ReceiveAll(Receive(s, Head(rxs)), Tail(rxs))

RECURSIVE HandedAll(_)
HandedAll(rxs) ==
    IF rxs = << >> THEN << >> ELSE Handed(Head(rxs)) \o HandedAll(Tail(rxs))

----------------------------------------------------------------------------
(* Operands.  A uint64 is four 16-bit limbs, most significant first; the   *)
(* arithmetic below is exact at that width.                                *)

LimbBase == 2 ^ 16

IsZero(v) == \A i \in 1..Len(v) : v[i] = 0

\* The value of the low 32 bits, as the int that va_arg(argList, int) yields.
ToInt32(v) ==
    LET hi == v[Len(v) - 1]
        lo == v[Len(v)]
    IN  IF hi >= LimbBase \div 2 THEN (hi - LimbBase) * LimbBase + lo ELSE hi * LimbBase + lo

\* v + 1 at the width of v, wrapping.
RECURSIVE AddOne(_)
AddOne(v) ==
    IF v = << >> THEN << >>
    ELSE IF v[Len(v)] = LimbBase - 1 THEN Append(AddOne(SubSeq(v, 1, Len(v) - 1)), 0)
    ELSE Append(SubSeq(v, 1, Len(v) - 1), v[Len(v)] + 1)

\* ~v at the width of v.
RECURSIVE Complement(_)
Complement(v) ==
    IF v = << >> THEN << >> ELSE <<LimbBase - 1 - Head(v)>> \o Complement(Tail(v))

\* Two's-complement negation at the width of v.
Negate(v) == AddOne(Complement(v))

\* rawValue &= 0x00000000FFFFFFFF
Mask32(v) == <<0, 0, v[3], v[4]>>

\* v / base and v % base, by long division over the limbs.
RECURSIVE DivModFrom(_, _, _, _, _)
DivModFrom(v, base, i, rem, quot) ==
    IF i > Len(v) THEN [quot |-> quot, rem |-> rem]
    ELSE DivModFrom(v, base, i + 1, (rem * LimbBase + v[i]) % base,
                    Append(quot, (rem * LimbBase + v[i]) \div base))

DivMod(v, base) == DivModFrom(v, base, 1, 0, << >>)

\* A small integer as a uint64 (two's complement when negative).
U64(n) ==
    IF n >= 0 THEN <<0, 0, n \div LimbBase, n % LimbBase>>
    ELSE Negate(<<0, 0, (-n) \div LimbBase, (-n) % LimbBase>>)

\* One variadic operand: the integer the caller passed (read at the width the
\* directive asks for) and the text a char* operand points to.
Operands ==
    { [i |-> U64(0),  s |-> << >>],
      [i |-> U64(7),  s |-> Txt(<<"a", "b">>)],
      [i |-> U64(-3), s |-> Txt(<<"h", "e", "l", "l", "o">>)] }

----------------------------------------------------------------------------
(* FormatSpec and the integer, character and string handlers.              *)

Flag_ForcePosOrNegSign       == "ForcePosOrNegSign"
Flag_SpaceForPosSign         == "SpaceForPosSign"
Flag_LeadingZeros            == "LeadingZeros"
Flag_LeftJustify             == "LeftJustify"
Flag_DecorativeFormatting    == "DecorativeFormatting"
Flag_DecorativeFormattingAlt == "DecorativeFormattingAlt"
Flag_BasePrefix              == "BasePrefix"

\* FormatSpec(): Flags(0), Width(0), Precision(-1), TypeSizeBytes(0)
FormatSpec == [Flags |-> {}, Width |-> 0, Precision |-> -1, TypeSizeBytes |-> 0]

Repeat(c, n) == [i \in 1..Max(n, 0) |-> c]

HandlerHelper_JustificationProlog(itemLength, spec) ==
    IF Flag_LeftJustify \in spec.Flags THEN << >>
    ELSE Repeat(RxChr(IF Flag_LeadingZeros \in spec.Flags THEN Ord("0") ELSE Ord(" ")),
                spec.Width - itemLength)

\* An epilog that pads whether or not the item is left justified.
HandlerHelper_JustificationEpilog_Always(itemLength, spec) ==
    Repeat(RxChr(Ord(" ")), spec.Width - itemLength)

HandlerHelper_JustificationEpilog(itemLength, spec) ==
    IF Flag_LeftJustify \notin spec.Flags THEN << >>
    ELSE Repeat(RxChr(Ord(" ")), spec.Width - itemLength)

\* The digit character for a remainder: '0' + r, moved up to the letters above '9'.
DigitChar(r, upperCase) ==
    IF Ord("0") + r > Ord("9")
    THEN Ord("0") + r + (IF upperCase THEN Ord("A") - Ord("9") - 1 ELSE Ord("a") - Ord("9") - 1)
    ELSE Ord("0") + r

\* while ((precision-- > 0) || rawValue): digits are written right to left.
RECURSIVE DigitLoop(_, _, _, _, _)
DigitLoop(rawValue, precision, base, upperCase, text) ==
    IF precision > 0 \/ ~IsZero(rawValue)
    THEN DigitLoop(DivMod(rawValue, base).quot, precision - 1, base, upperCase,
                   <<DigitChar(DivMod(rawValue, base).rem, upperCase)>> \o text)
    ELSE text

\* The grouping loops: a separator after every group-th digit counted from the right.
RECURSIVE GroupFrom(_, _, _, _, _)
GroupFrom(curr, i, mod, group, sep) ==
    IF i >= Len(curr) THEN << >>
    ELSE <<curr[i + 1]>>
         \o (IF (mod + 1) % group = 0 /\ i # Len(curr) - 1 THEN <<sep>> ELSE << >>)
         \o GroupFrom(curr, i + 1, mod + 1, group, sep)

\* uint64 rawValue = (bitSize == 32) ? *((uint32*)data) : *((uint64*)data)
RawValue(data, bitSize) == IF bitSize = 32 THEN <<0, 0>> \o data.i ELSE data.i

\* bool negative = (rawValue >> (bitSize-1)) ? true : false
IsNegative(raw, bitSize) == raw[Len(raw) - (bitSize \div 16) + 1] >= LimbBase \div 2

\* A sign step that looks at the space flag ahead of the force-sign flag.
SignText_SpaceFirst(spec, raw, treatAsUnsigned, bitSize, base) ==
    IF base # 10 THEN << >>
    ELSE IF ~treatAsUnsigned /\ IsNegative(raw, bitSize) THEN <<Ord("-")>>
    ELSE IF Flag_SpaceForPosSign \in spec.Flags THEN <<Ord(" ")>>
    ELSE IF Flag_ForcePosOrNegSign \in spec.Flags THEN <<Ord("+")>>
    ELSE << >>

\* The sign character of a base-10 conversion, if any.
SignText(spec, raw, treatAsUnsigned, bitSize, base) ==
    IF base # 10 THEN << >>
    ELSE IF ~treatAsUnsigned /\ IsNegative(raw, bitSize) THEN <<Ord("-")>>
    ELSE IF Flag_ForcePosOrNegSign \in spec.Flags THEN <<Ord("+")>>
    ELSE IF Flag_SpaceForPosSign \in spec.Flags THEN <<Ord(" ")>>
    ELSE << >>

\* rawValue = -(int64(rawValue)) for a negative base-10 value.
Negated(raw, treatAsUnsigned, bitSize, base) ==
    IF base = 10 /\ ~treatAsUnsigned /\ IsNegative(raw, bitSize) THEN Negate(raw) ELSE raw

\* rawValue after the sign step and the 32-bit mask.
Magnitude(raw, treatAsUnsigned, bitSize, base) ==
    IF bitSize = 32 THEN Mask32(Negated(raw, treatAsUnsigned, bitSize, base))
    ELSE Negated(raw, treatAsUnsigned, bitSize, base)

\* A prefix step that does not look at the value.
PrefixText_EvenForZero(spec, rawValue, upperCase, base, forcePrefixLowerCase) ==
    IF Flag_BasePrefix \in spec.Flags \/ forcePrefixLowerCase
    THEN CASE base = 8  -> <<Ord("0")>>
           [] base = 16 -> IF ~upperCase \/ forcePrefixLowerCase
                           THEN Txt(<<"0", "x">>) ELSE Txt(<<"0", "X">>)
           [] OTHER     -> << >>
    ELSE << >>

\* The base prefix, if any.
PrefixText(spec, rawValue, upperCase, base, forcePrefixLowerCase) ==
    IF (Flag_BasePrefix \in spec.Flags /\ ~IsZero(rawValue)) \/ forcePrefixLowerCase
    THEN CASE base = 8  -> <<Ord("0")>>
           [] base = 16 -> IF ~upperCase \/ forcePrefixLowerCase
                           THEN Txt(<<"0", "x">>) ELSE Txt(<<"0", "X">>)
           [] OTHER     -> << >>
    ELSE << >>

\* flags and precision as the digit steps use them: a given precision
\* switches the leading zeros off, a missing one is 1.
DigitFlags(spec) ==
    IF spec.Precision = -1 THEN spec.Flags ELSE spec.Flags \ {Flag_LeadingZeros}
DigitPrecision(spec) == IF spec.Precision = -1 THEN 1 ELSE spec.Precision

\* A zero fill of remWidth zeros however many digits there are.
ZeroFilled_WholeWidth(flags, remWidth, digits) ==
    IF Flag_LeadingZeros \in flags THEN Repeat(Ord("0"), remWidth) \o digits ELSE digits

\* The zero fill in front of the digits, up to remWidth.
ZeroFilled(flags, remWidth, digits) ==
    IF Flag_LeadingZeros \in flags
    THEN Repeat(Ord("0"), remWidth - Len(digits)) \o digits
    ELSE digits

\* A grouping step that looks at the comma flag ahead of the underscore flag.
Grouped_CommaFirst(flags, curr) ==
    IF Flag_DecorativeFormattingAlt \in flags
    THEN GroupFrom(curr, 0, 3 - (Len(curr) % 3), 3, Ord(","))
    ELSE IF Flag_DecorativeFormatting \in flags
    THEN GroupFrom(curr, 0, 4 - (Len(curr) % 4), 4, Ord("_"))
    ELSE curr

\* The digits as they are appended to convBuf, grouped when a flag asks for it.
Grouped(flags, curr) ==
    IF Flag_DecorativeFormatting \in flags
    THEN GroupFrom(curr, 0, 4 - (Len(curr) % 4), 4, Ord("_"))
    ELSE IF Flag_DecorativeFormattingAlt \in flags
    THEN GroupFrom(curr, 0, 3 - (Len(curr) % 3), 3, Ord(","))
    ELSE curr

\* convBuf once the sign and prefix (front) and the digits are known.
ConvBuf(spec, front, digits) ==
    front \o Grouped(DigitFlags(spec),
                     ZeroFilled(DigitFlags(spec), spec.Width - Len(front), digits))

\* HandlerHelper_IntegerNative from the point where rawValue is reduced.
IntegerNativeOf(spec, sign, rawValue, upperCase, base, forcePrefixLowerCase) ==
    ConvBuf(spec,
            sign \o PrefixText(spec, rawValue, upperCase, base, forcePrefixLowerCase),
            DigitLoop(rawValue, DigitPrecision(spec), base, upperCase, << >>))

\* HandlerHelper_IntegerNative: the characters appended to convBuf.
HandlerHelper_IntegerNative(spec, data, treatAsUnsigned, bitSize, upperCase, base, forcePrefixLowerCase) ==
    IntegerNativeOf(spec,
        SignText(spec, RawValue(data, bitSize), treatAsUnsigned, bitSize, base),
        Magnitude(RawValue(data, bitSize), treatAsUnsigned, bitSize, base),
        upperCase, base, forcePrefixLowerCase)

\* tuint512 rawValue = *((tuint128*)data), *((tuint256*)data) or *((tuint512*)data)
RawValueTacent(data) == Repeat(0, 32 - Len(data.i)) \o data.i

\* rawValue &= tuint512("0x00..00FF..FF") for 128 and 256 bits.
MaskTacent(v, bitSize) ==
    Repeat(0, 32 - (bitSize \div 16)) \o SubSeq(v, 32 - (bitSize \div 16) + 1, 32)

\* rawValue after the sign step and the mask.
MagnitudeTacent(raw, treatAsUnsigned, bitSize, base) ==
    MaskTacent(Negated(raw, treatAsUnsigned, bitSize, base), bitSize)

\* The grouping of HandlerHelper_IntegerTacent: the underscore groups have 8 digits.
GroupedTacent(flags, curr) ==
    IF Flag_DecorativeFormatting \in flags
    THEN GroupFrom(curr, 0, 8 - (Len(curr) % 8), 8, Ord("_"))
    ELSE IF Flag_DecorativeFormattingAlt \in flags
    THEN GroupFrom(curr, 0, 3 - (Len(curr) % 3), 3, Ord(","))
    ELSE curr

ConvBufTacent(spec, front, digits) ==
    front \o GroupedTacent(DigitFlags(spec),
                           ZeroFilled(DigitFlags(spec), spec.Width - Len(front), digits))

IntegerTacentOf(spec, sign, rawValue, upperCase, base, forcePrefixLowerCase) ==
    ConvBufTacent(spec,
                  sign \o PrefixText(spec, rawValue, upperCase, base, forcePrefixLowerCase),
                  DigitLoop(rawValue, DigitPrecision(spec), base, upperCase, << >>))

\* HandlerHelper_IntegerTacent: the characters appended to convBuf.
HandlerHelper_IntegerTacent(spec, data, treatAsUnsigned, bitSize, upperCase, base, forcePrefixLowerCase) ==
    IntegerTacentOf(spec,
        SignText(spec, RawValueTacent(data), treatAsUnsigned, bitSize, base),
        MagnitudeTacent(RawValueTacent(data), treatAsUnsigned, bitSize, base),
        upperCase, base, forcePrefixLowerCase)

\* Prolog, Receive(convInt), Epilog: the tail of every integer handler.
ReceiveJustified(spec, convInt) ==
    HandlerHelper_JustificationProlog(Len(convInt), spec)
    \o <<RxArr(convInt)>>
    \o HandlerHelper_JustificationEpilog(Len(convInt), spec)

\* The body shared by Handler_b, _o, _d, _i, _u, _x and _X for a native operand.
Handler_Integer(spec, data, treatAsUnsigned, upperCase, base) ==
    ReceiveJustified(spec,
        IF spec.TypeSizeBytes \in {4, 8}
        THEN HandlerHelper_IntegerNative(spec, data, treatAsUnsigned, spec.TypeSizeBytes * 8,
                                         upperCase, base, FALSE)
        ELSE HandlerHelper_IntegerTacent(spec, data, treatAsUnsigned, spec.TypeSizeBytes * 8,
                                         upperCase, base, FALSE))

\* pspec of Handler_p: leading zeros, and a width of 2 + 2 * size when none is given.
PointerSpec(spec) ==
    [spec EXCEPT !.Flags = @ \cup {Flag_LeadingZeros},
                 !.Width = IF spec.Width = 0 THEN 2 + 2 * spec.TypeSizeBytes ELSE @]

Handler_p(spec, data) ==
    ReceiveJustified(PointerSpec(spec),
        HandlerHelper_IntegerNative(PointerSpec(spec), data, TRUE, spec.TypeSizeBytes * 8,
                                    TRUE, 16, TRUE))

\* chr is the first byte of the operand (the low byte, little-endian).
Handler_c(spec, data) ==
    HandlerHelper_JustificationProlog(1, spec)
    \o <<RxChr(data.i[Len(data.i)] % 256)>>
    \o HandlerHelper_JustificationEpilog(1, spec)

\* int numToAppend = tStrlen(str), cut to the precision when one is given.
NumToAppend(spec, str) ==
    IF spec.Precision # -1 /\ tStrlen(str) > spec.Precision
    THEN spec.Precision ELSE tStrlen(str)

Handler_s(spec, data) ==
    HandlerHelper_JustificationProlog(NumToAppend(spec, data.s), spec)
    \o <<RxCnt(data.s, NumToAppend(spec, data.s))>>
    \o HandlerHelper_JustificationEpilog(NumToAppend(spec, data.s), spec)

\* The text of a bool: one letter with a decorative flag, the word without.
BoolText(spec, boolean) ==
    IF Flag_DecorativeFormatting \in spec.Flags THEN (IF boolean THEN Txt(<<"T">>) ELSE Txt(<<"F">>))
    ELSE IF Flag_DecorativeFormattingAlt \in spec.Flags
    THEN (IF boolean THEN Txt(<<"Y">>) ELSE Txt(<<"N">>))
    ELSE (IF boolean THEN Txt(<<"t", "r", "u", "e">>) ELSE Txt(<<"f", "a", "l", "s", "e">>))

\* boolean is the first byte of the operand (the low byte, little-endian).
Handler_B(spec, data) ==
    HandlerHelper_JustificationProlog(Len(BoolText(spec, data.i[Len(data.i)] % 256 # 0)), spec)
    \o <<RxCnt(BoolText(spec, data.i[Len(data.i)] % 256 # 0),
                Len(BoolText(spec, data.i[Len(data.i)] % 256 # 0)))>>
    \o HandlerHelper_JustificationEpilog(Len(BoolText(spec, data.i[Len(data.i)] % 256 # 0)), spec)

----------------------------------------------------------------------------
(* The floating point handlers. A double operand is a class (tGetFloatType) *)
(* and, for a finite value, a sign and a magnitude counted in units of      *)
(* 1/FScale; the arithmetic of the handlers is carried out exactly on it.   *)

FScale == 1000                 \* magnitudes are multiples of 1/FScale
DefaultPrecision == 4          \* static int DefaultPrecision = 4

\* The globals as the program starts.
InitialConfig ==
    [DefaultPrecision |-> DefaultPrecision, OutputChannels |-> "tChannel_Systems",
     SupplementaryDebuggerOutput |-> FALSE, StdoutRedirectCallback |-> nullptr]

Finite(neg, mag) == [cls |-> "NORM", neg |-> neg, mag |-> mag]
Special(cls)     == [cls |-> cls, neg |-> cls \in {"NQNAN", "NSNAN", "IQNAN", "NINF"}, mag |-> 0]

SpecialClasses == {"PQNAN", "NQNAN", "PSNAN", "NSNAN", "IQNAN", "PINF", "NINF"}

\* HandlerHelper_HandleSpecialFloatTypes: the literal appended to convBuf.
SpecialText(cls) ==
    CASE cls = "PQNAN" -> Txt(<<"n", "a", "n">>)
      [] cls = "NQNAN" -> Txt(<<"-", "n", "a", "n">>)
      [] cls = "PSNAN" -> IF windows THEN Txt(<<"n", "a", "n", "(", "s", "n", "a", "n", ")">>)
                          ELSE Txt(<<"n", "a", "n">>)
      [] cls = "NSNAN" -> IF windows THEN Txt(<<"-", "n", "a", "n", "(", "s", "n", "a", "n", ")">>)
                          ELSE Txt(<<"-", "n", "a", "n">>)
      [] cls = "IQNAN" -> IF windows THEN Txt(<<"-", "n", "a", "n", "(", "i", "n", "d", ")">>)
                          ELSE Txt(<<"-", "n", "a", "n">>)
      [] cls = "PINF"  -> Txt(<<"i", "n", "f">>)
      [] cls = "NINF"  -> Txt(<<"-", "i", "n", "f">>)

HandlerHelper_HandleSpecialFloatTypes(value) == value.cls \in SpecialClasses

\* int precision = spec.Precision; if (precision == -1) precision = DefaultPrecision
FloatPrecision(spec) ==
    IF spec.Precision = -1 THEN config.DefaultPrecision ELSE spec.Precision

\* double dec = 1.0; while (dec < value) dec *= 10.0
RECURSIVE DecAbove(_, _)
DecAbove(dec, mag) == IF dec < mag THEN DecAbove(dec * 10, mag) ELSE dec

\* if (dec > value) dec /= 10.0
LeadingDec(mag) == IF DecAbove(FScale, mag) > mag THEN DecAbove(FScale, mag) \div 10 ELSE DecAbove(FScale, mag)

\* while (dec >= 1.0): one digit of the integer part per power of ten.
RECURSIVE IntegerDigits(_, _, _, _, _)
IntegerDigits(buf, mag, dec, precision, sigDigits) ==
    IF dec >= FScale
    THEN IntegerDigits(Append(buf, Ord("0") + (mag \div dec)), mag % dec, dec \div 10,
                       IF sigDigits /\ precision > 0 THEN precision - 1 ELSE precision, sigDigits)
    ELSE [buf |-> buf, mag |-> mag, precision |-> precision]

\* if (!hasMantissa) buf.Append('0'); if (precision > 0) buf.Append('.')
WithPoint(st, hasMantissa) ==
    [st EXCEPT !.buf = (IF hasMantissa THEN st.buf ELSE Append(st.buf, Ord("0")))
                        \o (IF st.precision > 0 THEN <<Ord(".")>> ELSE << >>)]

\* while (precision--): one digit after the decimal point per count.
RECURSIVE FractionDigits(_, _, _)
FractionDigits(buf, mag, precision) ==
    IF precision # 0
    THEN FractionDigits(Append(buf, Ord("0") + ((mag * 10) \div FScale)), (mag * 10) % FScale,
                        precision - 1)
    ELSE [buf |-> buf, mag |-> mag]

Replace(buf, k, c) == SubSeq(buf, 1, k - 1) \o <<c>> \o SubSeq(buf, k + 1, Len(buf))

\* A round-up that stops at the first 9 instead of carrying to the left.
RoundUp_NoCarry(buf, end) ==
    IF buf[end] = Ord("9") THEN Replace(buf, end, Ord("0")) ELSE Replace(buf, end, buf[end] + 1)

\* The walk from the last character to the left: a 9 becomes 0, the point is
\* stepped over, the first other character is incremented.
RECURSIVE RoundUp(_, _)
RoundUp(buf, end) ==
    IF buf[end] = Ord("9") THEN RoundUp(Replace(buf, end, Ord("0")), end - 1)
    ELSE IF buf[end] = Ord(".") THEN RoundUp(buf, end - 1)
    ELSE Replace(buf, end, buf[end] + 1)

\* if ((value * 10.0) >= 5.0) round; result is &buf[0] when the reserved
\* character took the carry, &buf[1] otherwise.
Rounded(st) ==
    IF st.mag * 10 >= 5 * FScale /\ RoundUp(st.buf, Len(st.buf))[1] # Ord("0")
    THEN RoundUp(st.buf, Len(st.buf))
    ELSE IF st.mag * 10 >= 5 * FScale THEN Tail(RoundUp(st.buf, Len(st.buf)))
    ELSE Tail(st.buf)

\* The digits of the value: buf after the three loops and the rounding.
FloatDigits(spec, mag, sigDigits) ==
    Rounded(FractionDigits(
        WithPoint(IntegerDigits(<<Ord("0")>>, mag, LeadingDec(mag), FloatPrecision(spec), sigDigits),
                  LeadingDec(mag) >= FScale).buf,
        IntegerDigits(<<Ord("0")>>, mag, LeadingDec(mag), FloatPrecision(spec), sigDigits).mag,
        WithPoint(IntegerDigits(<<Ord("0")>>, mag, LeadingDec(mag), FloatPrecision(spec), sigDigits),
                  LeadingDec(mag) >= FScale).precision))

\* PrologHelperFloat before the sign is appended.
FloatSign(spec, value) ==
    IF value.neg THEN "NeedsNeg"
    ELSE IF Flag_ForcePosOrNegSign \in spec.Flags THEN "NeedsPlus"
    ELSE IF Flag_SpaceForPosSign \in spec.Flags THEN "NeedsSpace"
    ELSE "None"

\* HandlerHelper_FloatNormal: what it appends to convBuf and what it returns.
HandlerHelper_FloatNormal(spec, value, sigDigits) ==
    IF Flag_LeadingZeros \notin spec.Flags /\ FloatSign(spec, value) = "NeedsNeg"
    THEN [conv |-> <<Ord("-")>> \o FloatDigits(spec, value.mag, sigDigits), ret |-> "None"]
    ELSE IF Flag_LeadingZeros \notin spec.Flags /\ FloatSign(spec, value) = "NeedsPlus"
    THEN [conv |-> <<Ord("+")>> \o FloatDigits(spec, value.mag, sigDigits), ret |-> "None"]
    ELSE [conv |-> FloatDigits(spec, value.mag, sigDigits), ret |-> FloatSign(spec, value)]

\* convFloat and res of Handler_f and of the fixed-point branch of Handler_g.
FloatConverted(spec, value, sigDigits) ==
    IF HandlerHelper_HandleSpecialFloatTypes(value)
    THEN [conv |-> SpecialText(value.cls), ret |-> "NoZeros"]
    ELSE HandlerHelper_FloatNormal(spec, value, sigDigits)

\* switch (res): the sign handed to the receiver ahead of the padding.
SignReceive(res) ==
    CASE res = "NeedsNeg"   -> <<RxChr(Ord("-"))>>
      [] res = "NeedsPlus"  -> <<RxChr(Ord("+"))>>
      [] res = "NeedsSpace" -> <<RxChr(Ord(" "))>>
      [] OTHER              -> << >>

\* A modSpec that keeps LeadingZeros whatever res is.
ModSpec_KeepsZeros(spec, res) == spec

\* FormatSpec modSpec(spec), with LeadingZeros cleared for res == NoZeros.
ModSpec(spec, res) ==
    IF res = "NoZeros" THEN [spec EXCEPT !.Flags = @ \ {Flag_LeadingZeros}] ELSE spec

\* The sign, the prolog, the conversion buffer and the epilog.
FloatJustified(spec, cv) ==
    SignReceive(cv.ret)
    \o HandlerHelper_JustificationProlog(Len(cv.conv) + Len(SignReceive(cv.ret)), ModSpec(spec, cv.ret))
    \o <<RxArr(cv.conv)>>
    \o HandlerHelper_JustificationEpilog(Len(cv.conv) + Len(SignReceive(cv.ret)), ModSpec(spec, cv.ret))

Handler_f(spec, data) == FloatJustified(spec, FloatConverted(spec, data.f, FALSE))

RECURSIVE Pow10(_)
Pow10(n) == IF n = 0 THEN 1 ELSE 10 * Pow10(n - 1)

\* HandlerHelper_FloatComputeExponent: the divisions by ten that bring the
\* value under 10, or minus the multiplications that bring it to 1 or above.
RECURSIVE ExponentUp(_, _)
ExponentUp(mag, den) == IF mag >= 10 * den THEN 1 + ExponentUp(mag, den * 10) ELSE 0

RECURSIVE ExponentDown(_)
ExponentDown(mag) == IF mag # 0 /\ mag < FScale THEN ExponentDown(mag * 10) - 1 ELSE 0

HandlerHelper_FloatComputeExponent(mag) ==
    IF mag >= 10 * FScale THEN ExponentUp(mag, FScale) ELSE ExponentDown(mag)

\* val = (exponent < 0) ? (val * power10) : (val / power10), then
\* val += 0.5 / 10^precision: the sum in units of 10^-(precision + 1), the
\* digits past that place left out.
ScaledMantissa(mag, exponent, precision) ==
    5 + (IF exponent < 0
         THEN (mag * Pow10(0 - exponent) * Pow10(precision + 1)) \div FScale
         ELSE IF FScale * Pow10(exponent) >= Pow10(precision + 1)
         THEN mag \div ((FScale * Pow10(exponent)) \div Pow10(precision + 1))
         ELSE mag * (Pow10(precision + 1) \div (FScale * Pow10(exponent))))

\* while (precision): int digit = int(val); val -= digit; val *= 10.0, the
\* point written after the first digit, precision counted from the second.
RECURSIVE MantissaDigits(_, _, _, _)
MantissaDigits(val, one, precision, firstDigit) ==
    IF precision = 0 THEN << >>
    ELSE <<Ord("0") + (val \div one)>> \o (IF firstDigit THEN <<Ord(".")>> ELSE << >>)
         \o MantissaDigits((val % one) * 10, one, IF firstDigit THEN precision ELSE precision - 1, FALSE)

\* 'e', the sign of the exponent, its hundreds digit when that is not 0, and
\* its last two digits.
ExponentText(exponent) ==
    <<Ord("e"), IF exponent >= 0 THEN Ord("+") ELSE Ord("-")>>
    \o (IF ((Max(exponent, 0 - exponent) \div 100) % 10) # 0
        THEN <<Ord("0") + ((Max(exponent, 0 - exponent) \div 100) % 10)>> ELSE << >>)
    \o <<Ord("0") + ((Max(exponent, 0 - exponent) \div 10) % 10),
         Ord("0") + (Max(exponent, 0 - exponent) % 10)>>

\* result + maxLeadingZeroes up to the terminator, as Handler_e fills it.
ExponentialDigits(spec, mag) ==
    MantissaDigits(ScaledMantissa(mag, HandlerHelper_FloatComputeExponent(mag), FloatPrecision(spec)),
                   Pow10(FloatPrecision(spec) + 1), FloatPrecision(spec), TRUE)
    \o ExponentText(HandlerHelper_FloatComputeExponent(mag))

maxLeadingZeroes == 16

\* int numZeroes = spec.Width - tStrlen(curr), at most maxLeadingZeroes.
NumZeroes(spec, text) == Min(spec.Width - Len(text), maxLeadingZeroes)

\* A sign that is put in front of the first character instead of on it.
SignOverFirst_InFront(text, negative, spec) ==
    IF negative THEN <<Ord("-")>> \o text
    ELSE IF Flag_ForcePosOrNegSign \in spec.Flags THEN <<Ord("+")>> \o text
    ELSE text

\* if (negative) *curr = '-'; else if (ForcePosOrNegSign) *curr = '+'
SignOverFirst(text, negative, spec) ==
    IF negative THEN <<Ord("-")>> \o Tail(text)
    ELSE IF Flag_ForcePosOrNegSign \in spec.Flags THEN <<Ord("+")>> \o Tail(text)
    ELSE text

\* The text from curr once the sign and the leading zeros are placed.
ExponentialSigned(spec, text, negative) ==
    IF Flag_LeadingZeros \notin spec.Flags
    THEN (IF negative THEN <<Ord("-")>>
          ELSE IF Flag_ForcePosOrNegSign \in spec.Flags THEN <<Ord("+")>>
          ELSE IF Flag_SpaceForPosSign \in spec.Flags THEN <<Ord(" ")>>
          ELSE << >>) \o text
    ELSE SignOverFirst(Repeat(Ord("0"), NumZeroes(spec, text)) \o text, negative, spec)

Handler_e(spec, data) ==
    IF HandlerHelper_HandleSpecialFloatTypes(data.f) THEN <<RxArr(SpecialText(data.f.cls))>>
    ELSE <<RxCnt(ExponentialSigned(spec, ExponentialDigits(spec, data.f.mag), data.f.neg),
                 Len(ExponentialSigned(spec, ExponentialDigits(spec, data.f.mag), data.f.neg)))>>

\* if (v < noExpFormatThreshold), the comparison made on the signed value; a
\* NaN compares false and the infinities by their sign.
BelowThreshold(spec, value) ==
    CASE value.cls = "NORM" -> value.neg \/ value.mag < Pow10(FloatPrecision(spec)) * FScale
      [] value.cls = "NINF" -> TRUE
      [] OTHER              -> FALSE

\* Handler_g, while (precision): precision digits, the point after the first,
\* the last one raised when the digit after it is 5 or more and it is not 9.
RECURSIVE SignificantDigits(_, _, _, _)
SignificantDigits(val, one, precision, firstDigit) ==
    IF precision = 0 THEN << >>
    ELSE <<Ord("0") + (val \div one)
            + (IF precision = 1 /\ ((val % one) * 10) \div one >= 5 /\ val \div one < 9 THEN 1 ELSE 0)>>
         \o (IF firstDigit THEN <<Ord(".")>> ELSE << >>)
         \o SignificantDigits((val % one) * 10, one, precision - 1, FALSE)

GeneralDigits(spec, mag) ==
    SignificantDigits(ScaledMantissa(mag, HandlerHelper_FloatComputeExponent(mag), FloatPrecision(spec)),
                      Pow10(FloatPrecision(spec) + 1), FloatPrecision(spec), TRUE)
    \o ExponentText(HandlerHelper_FloatComputeExponent(mag))

Handler_g(spec, data) ==
    IF BelowThreshold(spec, data.f) THEN FloatJustified(spec, FloatConverted(spec, data.f, TRUE))
    ELSE IF HandlerHelper_HandleSpecialFloatTypes(data.f) THEN <<RxArr(SpecialText(data.f.cls))>>
    ELSE <<RxCnt(ExponentialSigned(spec, GeneralDigits(spec, data.f.mag), data.f.neg),
                 Len(ExponentialSigned(spec, GeneralDigits(spec, data.f.mag), data.f.neg)))>>

\* Handler_f on components c..numComponents, sep received between two of them.
RECURSIVE VectorComponents(_, _, _, _, _)
VectorComponents(spec, components, c, numComponents, sep) ==
    IF c > numComponents THEN << >>
    ELSE Handler_f(spec, [f |-> components[c]])
         \o (IF c < numComponents THEN sep ELSE << >>)
         \o VectorComponents(spec, components, c + 1, numComponents, sep)

\* A vector whose components are separated by a comma alone.
HandlerHelper_Vector_CommaOnly(spec, components, numComponents) ==
    <<RxChr(Ord("("))>>
    \o VectorComponents(spec, components, 1, numComponents, <<RxCnt(Txt(<<",">>), 1)>>)
    \o <<RxChr(Ord(")"))>>

HandlerHelper_Vector(spec, components, numComponents) ==
    IF Flag_DecorativeFormatting \in spec.Flags
    THEN VectorComponents(spec, components, 1, numComponents, <<RxChr(Ord(" "))>>)
    ELSE <<RxChr(Ord("("))>>
         \o VectorComponents(spec, components, 1, numComponents, <<RxCnt(Txt(<<",", " ">>), 2)>>)
         \o <<RxChr(Ord(")"))>>

\* int numComponents = spec.TypeSizeBytes >> 2, asserted to be 2, 3 or 4.
Handler_v(spec, data) == HandlerHelper_Vector(spec, data.v, spec.TypeSizeBytes \div 4)

\* The operand sizes the integer handlers accept: nativeInt || tacentInt.
IntegerSizes == {4, 8, 16, 32, 64}

\* (handler->Handler)(receiver, spec, pval): the Receive calls the handler makes.
\* The integer handlers, Handler_p, Handler_c, Handler_s and Handler_B are modelled.
CallHandler(name, spec, data) ==
    CASE name = "Handler_b" /\ spec.TypeSizeBytes \in IntegerSizes -> Handler_Integer(spec, data, TRUE, FALSE, 2)
      [] name = "Handler_o" /\ spec.TypeSizeBytes \in IntegerSizes -> Handler_Integer(spec, data, TRUE, FALSE, 8)
      [] name = "Handler_d" /\ spec.TypeSizeBytes \in IntegerSizes -> Handler_Integer(spec, data, FALSE, FALSE, 10)
      [] name = "Handler_i" /\ spec.TypeSizeBytes \in IntegerSizes -> Handler_Integer(spec, data, FALSE, FALSE, 10)
      [] name = "Handler_u" /\ spec.TypeSizeBytes \in IntegerSizes -> Handler_Integer(spec, data, TRUE, FALSE, 10)
      [] name = "Handler_x" /\ spec.TypeSizeBytes \in IntegerSizes -> Handler_Integer(spec, data, TRUE, FALSE, 16)
      [] name = "Handler_X" /\ spec.TypeSizeBytes \in IntegerSizes -> Handler_Integer(spec, data, TRUE, TRUE, 16)
      [] name = "Handler_p" /\ spec.TypeSizeBytes \in {4, 8} -> Handler_p(spec, data)
      [] name = "Handler_c" -> Handler_c(spec, data)
      [] name = "Handler_B" -> Handler_B(spec, data)
      [] name = "Handler_s" /\ spec.TypeSizeBytes = PointerSize -> Handler_s(spec, data)
      [] name = "Handler_f" -> Handler_f(spec, data)
      [] name = "Handler_e" -> Handler_e(spec, data)
      [] name = "Handler_g" -> Handler_g(spec, data)
      [] name = "Handler_v" /\ spec.TypeSizeBytes \in {8, 12, 16} -> Handler_v(spec, data)

----------------------------------------------------------------------------
(* Values the variables of a part hold while another part is exercised.    *)

FindIdle ==
    /\ ftype = NUL /\ fpc = "idle" /\ fres = nullptr /\ foob = FALSE /\ fpath = "none"

SinkIdle ==
    /\ receiver = Receiver_count /\ dest = << >> /\ delivered = << >>

CallIdle ==
    /\ mem = << >> /\ formatNull = FALSE /\ destNull = FALSE /\ call = "none"
    /\ destSize = 0 /\ pc = "idle" /\ fpos = 1 /\ args = << >> /\ argi = 0
    /\ ret = 0 /\ hiRead = 0 /\ termSent = 0 /\ reqChars = 0 /\ pass = 1
    /\ measured = << >> /\ fault = "none"

PlatformIdle == charSigned = FALSE /\ strayInt = nullptr /\ negTraps = FALSE /\ windows = FALSE

ConfigIdle == config = InitialConfig /\ threads = << >>

NoOperand == [i |-> << >>, s |-> << >>]

NoLocals == [buf |-> << >>, mag |-> 0, precision |-> 0]

RenderIdle ==
    /\ rname = "none" /\ rspec = FormatSpec /\ rop = NoOperand /\ rbytes = 0
    /\ rconv = << >> /\ locals = NoLocals

----------------------------------------------------------------------------
(* FindHandler applied to every char value, on either kind of platform.    *)

\* What the int below the jump table may hold: no entry, any entry, one past.
StrayInts == nullptr..NumHandlers

FindInit ==
    /\ charSigned \in BOOLEAN
    /\ strayInt \in (IF charSigned THEN StrayInts ELSE {nullptr})
    /\ ftype \in 0..255
    /\ fpc = "call" /\ fres = nullptr /\ foob = FALSE /\ fpath = "none"
    /\ negTraps = FALSE /\ windows = FALSE /\ ConfigIdle
    /\ SinkIdle /\ CallIdle /\ RenderIdle

\* FindHandler up to the jump-table return.
FindJump ==
    /\ fpc = "call"
    /\ IF ftype = NUL
       THEN fres' = nullptr /\ fpc' = "done" /\ fpath' = "nul" /\ foob' = foob
       ELSE /\ foob' = ~JumpTableInBounds(ftype)
            /\ IF FastPathHit(ftype, JumpTableRead(ftype))
               THEN fres' = JumpTableRead(ftype) /\ fpc' = "done" /\ fpath' = "jump"
               ELSE fres' = fres /\ fpc' = "scan" /\ fpath' = fpath
    /\ UNCHANGED <<ftype, renderVars, platformVars, configVars, sinkVars, callVars>>

\* FindHandler's full search and final return.
FindScan ==
    /\ fpc = "scan"
    /\ fres' = LinearScan(ftype) /\ fpc' = "done" /\ fpath' = "scan"
    /\ UNCHANGED <<ftype, foob, renderVars, platformVars, configVars, sinkVars, callVars>>

FindNext == FindJump \/ FindScan

SpecFind == FindInit /\ [][FindNext]_vars

----------------------------------------------------------------------------
(* A Receiver driven directly by Receive calls.                            *)

MaxLimit   == 3      \* largest receive limit tried
MaxOffered == 5      \* Receive calls are made while fewer characters were handed over

RecvChars == {Ord("c"), NUL}
RecvStrs  == {<< >>, Txt(<<"a", "b">>), Txt(<<"x", "y", "z">>)}

RecvInit ==
    /\ receiver \in {Receiver_count, Receiver_buffer, Receiver_string}
                      \cup {Receiver_limit(n) : n \in 0..MaxLimit}
    /\ dest = << >> /\ delivered = << >>
    /\ PlatformIdle /\ ConfigIdle /\ FindIdle /\ RenderIdle
    /\ mem = << >> /\ formatNull = FALSE /\ destNull = FALSE /\ call = "Receiver"
    /\ destSize = 0 /\ pc = "recv" /\ fpos = 1 /\ args = << >> /\ argi = 0
    /\ ret = 0 /\ hiRead = 0 /\ termSent = 0 /\ reqChars = 0 /\ pass = 1
    /\ measured = << >> /\ fault = "none"

\* The effect of one Receive call on the receiver, its string and the history.
Hand(rx) ==
    /\ LET s == Receive(Sink(receiver, dest), rx)
       IN  receiver' = s.r /\ dest' = s.d
    /\ delivered' = delivered \o Handed(rx)

RecvChr ==
    /\ pc = "recv" /\ Len(delivered) < MaxOffered
    /\ \E c \in RecvChars : Hand(RxChr(c))
    /\ UNCHANGED <<renderVars, platformVars, configVars, findVars, callVars>>

RecvStr ==
    /\ pc = "recv" /\ Len(delivered) < MaxOffered
    /\ \E str \in RecvStrs \cup {NullStr} : Hand(RxStr(str))
    /\ UNCHANGED <<renderVars, platformVars, configVars, findVars, callVars>>

RecvCnt ==
    /\ pc = "recv" /\ Len(delivered) < MaxOffered
    /\ \E str \in RecvStrs \cup {NullStr} :
          \E n \in 0..(IF str = NullStr THEN 1 ELSE Len(str)) : Hand(RxCnt(str, n))
    /\ UNCHANGED <<renderVars, platformVars, configVars, findVars, callVars>>

RecvArr ==
    /\ pc = "recv" /\ Len(delivered) < MaxOffered
    /\ \E buf \in RecvStrs : Hand(RxArr(buf))
    /\ UNCHANGED <<renderVars, platformVars, configVars, findVars, callVars>>

\* Receive(str, numChars) with numChars below zero, as Handler_s passes it for
\* a negative precision, on a receiver that only counts: the test !numChars
\* lets it through and NumReceived += numChars is executed.
RecvNegativeCount ==
    /\ pc = "recv" /\ Len(delivered) < MaxOffered
    /\ receiver.String = nullptr /\ ~receiver.Buffer /\ receiver.NumReceived >= 0
    /\ \E str \in RecvStrs \ {<< >>} : \E n \in {0 - 1, 0 - 3} : Hand(RxCnt(str, n))
    /\ UNCHANGED <<renderVars, platformVars, configVars, findVars, callVars>>

\* The same call on a receiver that writes through String: tMemcpy is asked
\* for a length that, converted to an unsigned size, exceeds every object.
RecvNegativeCopy ==
    /\ pc = "recv" /\ Len(delivered) < MaxOffered
    /\ receiver.String # nullptr
    /\ receiver.ReceiveLimit = -1 \/ receiver.NumReceived < receiver.ReceiveLimit
    /\ pc' = "dead"
    /\ fault' = "segv"
    /\ UNCHANGED <<renderVars, platformVars, configVars, findVars, sinkVars, mem, formatNull, destNull,
                   call, destSize, fpos, args, argi, ret, hiRead, termSent, reqChars, pass,
                   measured>>

RecvNext == RecvChr \/ RecvStr \/ RecvCnt \/ RecvArr \/ RecvNegativeCount \/ RecvNegativeCopy

SpecRecv == RecvInit /\ [][RecvNext]_vars

----------------------------------------------------------------------------
(* Process: the scan of the format string.                                 *)

Unmapped == 0 - 3              \* what a read outside the modelled memory finds

\* format[k] for the format pointer at index p - k of m.
ReadAt(m, p) == IF p \in 1..Len(m) THEN m[p] ELSE Unmapped

FlagChars == {Ord("-"), Ord("+"), Ord(" "), Ord("0"), Ord("_"), Ord("'"), Ord("#")}

FlagOf(c) ==
    CASE c = Ord("-") -> Flag_LeftJustify
      [] c = Ord("+") -> Flag_ForcePosOrNegSign
      [] c = Ord(" ") -> Flag_SpaceForPosSign
      [] c = Ord("0") -> Flag_LeadingZeros
      [] c = Ord("_") -> Flag_DecorativeFormatting
      [] c = Ord("'") -> Flag_DecorativeFormattingAlt
      [] c = Ord("#") -> Flag_BasePrefix

\* IsValidFormatSpecifierCharacter that also accepts the percent sign.
IsValidFormatSpecifierCharacter_AcceptsPercent(c) ==
    \/ c \in FlagChars \/ c = Ord("%")
    \/ tIsdigit(c) \/ c = Ord(".") \/ c = Ord("*")
    \/ c = Ord(":") \/ c = Ord("!") \/ c = Ord("|")
    \/ (c \in 0..255 /\ FindHandler(c) # nullptr)

IsValidFormatSpecifierCharacter(c) ==
    \/ c \in FlagChars
    \/ tIsdigit(c) \/ c = Ord(".") \/ c = Ord("*")
    \/ c = Ord(":") \/ c = Ord("!") \/ c = Ord("|")
    \/ (c \in 0..255 /\ FindHandler(c) # nullptr)

\* The flag loop: the position after the flags and the flags seen.
RECURSIVE ParseFlags(_, _, _)
ParseFlags(m, p, flags) ==
    IF ReadAt(m, p) \in FlagChars
    THEN ParseFlags(m, p + 1, flags \cup {FlagOf(ReadAt(m, p))})
    ELSE [pos |-> p, flags |-> flags]

\* A digit loop: the position after the digits and the number read.
RECURSIVE ParseDigits(_, _, _)
ParseDigits(m, p, val) ==
    IF tIsdigit(ReadAt(m, p))
    THEN ParseDigits(m, p + 1, val * 10 + (ReadAt(m, p) - Ord("0")))
    ELSE [pos |-> p, val |-> val]

\* A number read by a digit loop, with the count of operands taken so far.
Counted(d, used) == [pos |-> d.pos, val |-> d.val, used |-> used]

\* The optional width at index p: digits, or an asterisk and the next operand.
ParseWidth(m, p, ops) ==
    IF ReadAt(m, p) # Ord("*")
    THEN Counted(ParseDigits(m, p, 0), 0)
    ELSE [pos |-> p + 1, val |-> ToInt32(ops[1].i), used |-> 1]

\* A precision whose asterisk reads the first operand of the directive again.
ParsePrecision_FirstOperand(m, w, ops) ==
    IF ReadAt(m, w.pos) # Ord(".")
    THEN [pos |-> w.pos, val |-> -1, used |-> w.used]
    ELSE IF ReadAt(m, w.pos + 1) # Ord("*")
    THEN Counted(ParseDigits(m, w.pos + 1, 0), w.used)
    ELSE [pos |-> w.pos + 2, val |-> ToInt32(ops[1].i), used |-> w.used + 1]

\* The optional precision after the width w.
ParsePrecision(m, w, ops) ==
    IF ReadAt(m, w.pos) # Ord(".")
    THEN [pos |-> w.pos, val |-> -1, used |-> w.used]
    ELSE IF ReadAt(m, w.pos + 1) # Ord("*")
    THEN Counted(ParseDigits(m, w.pos + 1, 0), w.used)
    ELSE [pos |-> w.pos + 2, val |-> ToInt32(ops[w.used + 1].i), used |-> w.used + 1]

\* The number after the type unit taken as a count of bytes whatever the unit.
Scaled_AlwaysBytes(typeUnit, d) == [pos |-> d.pos, val |-> d.val]

\* The switch on typeUnit applied to the number d read after it.
Scaled(typeUnit, d) ==
    [pos |-> d.pos,
     val |-> CASE typeUnit = Ord(":") -> d.val * 4
               [] typeUnit = Ord("|") -> d.val \div 8
               [] OTHER               -> d.val]

\* The optional type size at index p.
ParseTypeSize(m, p) ==
    IF ReadAt(m, p) \notin {Ord(":"), Ord("!"), Ord("|")}
    THEN [pos |-> p, val |-> 0]
    ELSE Scaled(ReadAt(m, p), ParseDigits(m, p + 1, 0))

\* The flags as they would be without the step that drops leading zeros.
DirectiveFlags_KeepsLeadingZeros(flags) == flags

\* Leading zeros are dropped when left justification is asked for as well.
DirectiveFlags(flags) ==
    IF Flag_LeadingZeros \in flags /\ Flag_LeftJustify \in flags
    THEN flags \ {Flag_LeadingZeros} ELSE flags

Parsed(flags, w, pr, ts) ==
    [spec |-> [Flags |-> DirectiveFlags(flags), Width |-> w.val, Precision |-> pr.val,
               TypeSizeBytes |-> ts.val],
     pos  |-> ts.pos,
     used |-> pr.used]

ParseAfterPrecision(m, flags, w, pr) == Parsed(flags, w, pr, ParseTypeSize(m, pr.pos))
ParseAfterWidth(m, flags, w, ops) ==
    ParseAfterPrecision(m, flags, w, ParsePrecision(m, w, ops))
ParseAfterFlags(m, f, ops) == ParseAfterWidth(m, f.flags, ParseWidth(m, f.pos, ops), ops)

\* The directive whose percent sign is at index p of m: its FormatSpec, the
\* index of its type character and the number of operands the asterisks took
\* from ops, the operands next in the va_list.
ParseDirective(m, p, ops) == ParseAfterFlags(m, ParseFlags(m, p + 1, {}), ops)

\* The switch on spec.TypeSizeBytes and the handler's TypeBase: a holder is
\* filled from the va_list (pval is not null) for these combinations only.
HasHolder(size, bt) ==
    \/ size \in {4, 12, 16, 32, 64} /\ bt \in {"Int", "Flt"}
    \/ size = 8 /\ bt \in {"Int", "Flt", "Dbl"}

\* sizeof the holder struct va_arg extracts in the case taken for size.
HolderBytes(size, bt) ==
    CASE size = 4  -> 4
      [] size = 8  -> 8
      [] size = 12 -> 12
      [] size = 16 -> 16
      [] size = 32 -> 32
      [] size = 64 -> 64
      [] OTHER     -> 0

\* What pval points to once va_arg copied size bytes of the operand op.
Holder(op, size) ==
    [op EXCEPT !.i = IF size = 4 THEN SubSeq(@, 3, 4) ELSE @]

----------------------------------------------------------------------------
(* The print functions, called with every format built from a few pieces.  *)

MaxItems == 2                  \* pieces in a format string
TailLen  == 1                  \* modelled bytes after the format's terminator
MaxDest  == 3                  \* largest destSize passed to tvsPrintf

\* Pieces of format strings: literals, escapes, directives for the modelled
\* handlers, directives that break the contract, and unfinished directives.
Tokens ==
    { Txt(<<"a">>),
      Txt(<<"%", "%">>),
      Txt(<<"%", "d">>),
      Txt(<<"%", "c">>),
      Txt(<<"%", "s">>),
      Txt(<<"%", "-", "3", "s">>),
      Txt(<<"%", "*", "d">>),
      Txt(<<"%", "5", "z">>),
      Txt(<<"%", "!", "5", "d">>),
      Txt(<<"%", "!", "4", "f">>),
      Txt(<<"%">>),
      Txt(<<"%", "5">>) }

TailBytes == {NUL, Ord("a")}

RECURSIVE Flatten(_)
Flatten(ss) == IF ss = << >> THEN << >> ELSE Head(ss) \o Flatten(Tail(ss))

\* The memory at the format pointer: the string, its terminator, what follows.
Memories ==
    { Flatten(toks) \o <<NUL>> \o tail :
        toks \in UNION {[1..n -> Tokens] : n \in 0..MaxItems},
        tail \in [1..TailLen -> TailBytes] }

\* The index of the format string's terminator.
TermIdx == CHOOSE p \in 1..Len(mem) : mem[p] = NUL /\ \A q \in 1..(p - 1) : mem[q] # NUL

Calls == {"tvPrintf", "tvsPrintf", "tvsPrintfS", "tvsPrintfN", "tvcPrintf", "tvfPrintf"}

\* The memory used for the calls whose arguments are rejected on entry.
RejectedMem == Txt(<<"a">>) \o <<NUL, NUL>>

\* No format below holds a char above 127, so the platform's char signedness
\* and the stray int play no part in these calls.
Init ==
    /\ PlatformIdle /\ ConfigIdle /\ FindIdle /\ SinkIdle /\ RenderIdle
    /\ call \in Calls
    /\ \/ /\ formatNull = FALSE /\ destNull = FALSE
          /\ mem \in Memories
          /\ destSize \in (IF call = "tvsPrintfN" THEN 1..MaxDest ELSE {0})
       \/ /\ formatNull \in BOOLEAN
          /\ destNull \in (IF call \in {"tvsPrintf", "tvsPrintfN", "tvfPrintf"}
                           THEN BOOLEAN ELSE {FALSE})
          /\ destSize \in (IF call = "tvsPrintfN" THEN -1..1 ELSE {0})
          /\ formatNull \/ destNull \/ (call = "tvsPrintfN" /\ destSize <= 0)
          /\ mem = (IF formatNull THEN << >> ELSE RejectedMem)
    /\ pc = "enter" /\ fpos = 1 /\ args = << >> /\ argi = 0
    /\ ret = 0 /\ hiRead = 0 /\ termSent = 0 /\ reqChars = 0 /\ pass = 1
    /\ measured = << >> /\ fault = "none"

\* The checks and the Receiver construction ahead of the call of Process.
Enter ==
    /\ pc = "enter"
    /\ IF \/ formatNull
          \/ (destNull /\ call \in {"tvsPrintf", "tvsPrintfN", "tvfPrintf"})
          \/ (call = "tvsPrintfN" /\ destSize <= 0)
       THEN pc' = "done" /\ ret' = 0 /\ UNCHANGED <<receiver, dest>>
       ELSE IF call = "tvsPrintfN" /\ destSize = 1
       THEN pc' = "done" /\ ret' = 0 /\ dest' = WriteCells(dest, 0, <<NUL>>)
            /\ UNCHANGED receiver
       ELSE /\ pc' = "scan" /\ ret' = ret /\ dest' = dest
            /\ receiver' = CASE call \in {"tvPrintf", "tvfPrintf"}   -> Receiver_buffer
                             [] call \in {"tvcPrintf", "tvsPrintfS"} -> Receiver_count
                             [] call = "tvsPrintf"                   -> Receiver_string
                             [] call = "tvsPrintfN"                  -> Receiver_limit(destSize)
    /\ UNCHANGED <<renderVars, platformVars, configVars, findVars, delivered, mem, formatNull, destNull, call,
                   destSize, fpos, args, argi, hiRead, termSent, reqChars, pass,
                   measured, fault>>

\* The loop body for a character other than the percent sign.
Literal ==
    /\ pc = "scan"
    /\ ReadAt(mem, fpos) \notin {NUL, Ord("%"), Unmapped}
    /\ Hand(RxChr(mem[fpos]))
    /\ fpos' = fpos + 1
    /\ hiRead' = Max(hiRead, fpos)
    /\ UNCHANGED <<renderVars, platformVars, configVars, findVars, mem, formatNull, destNull, call, destSize, pc,
                   args, argi, ret, termSent, reqChars, pass, measured, fault>>

\* A percent sign and a character that cannot start a directive.
Escape ==
    /\ pc = "scan"
    /\ ReadAt(mem, fpos) = Ord("%")
    /\ ReadAt(mem, fpos + 1) # Unmapped
    /\ ~IsValidFormatSpecifierCharacter(mem[fpos + 1])
    /\ Hand(RxChr(mem[fpos + 1]))
    /\ fpos' = fpos + 2
    /\ hiRead' = Max(hiRead, fpos + 1)
    /\ termSent' = termSent + (IF mem[fpos + 1] = NUL THEN 1 ELSE 0)
    /\ UNCHANGED <<renderVars, platformVars, configVars, findVars, mem, formatNull, destNull, call, destSize, pc,
                   args, argi, ret, reqChars, pass, measured, fault>>

\* The scan is at a directive: a percent sign and a valid next character.
AtDirective ==
    /\ pc = "scan"
    /\ ReadAt(mem, fpos) = Ord("%")
    /\ ReadAt(mem, fpos + 1) # Unmapped
    /\ IsValidFormatSpecifierCharacter(mem[fpos + 1])

\* Where the directive at the scan position has its type character, and how
\* many operands its asterisks take; neither depends on the operands' values.
NoOps     == [k \in 1..2 |-> [i |-> U64(0), s |-> << >>]]
TypePos   == ParseDirective(mem, fpos, NoOps).pos
StarsUsed == ParseDirective(mem, fpos, NoOps).used
TypeChar  == ReadAt(mem, TypePos)

\* The operands a pass can find next in the va_list: those an earlier pass
\* of the same call read, then any.
OpsFor(n) ==
    {ops \in [1..n -> Operands] :
        \A k \in 1..n : argi + k <= Len(args) => ops[k] = args[argi + k]}

\* FindHandler returned null for the type character; the assertion either
\* stops the program or lets it go on to read the fields of a null HandlerInfo.
DirectiveNoHandler ==
    /\ AtDirective
    /\ TypeChar # Unmapped
    /\ FindHandler(TypeChar) = nullptr
    /\ pc' = "dead"
    /\ fault' \in {"abort", "nullHandler"}
    /\ hiRead' = Max(hiRead, TypePos)
    /\ UNCHANGED <<renderVars, platformVars, configVars, findVars, sinkVars, mem, formatNull, destNull, call,
                   destSize, fpos, args, argi, ret, termSent, reqChars, pass, measured>>

\* The size the directive resolves to and the kind of its handler.
ResolvedSize(spec, h) ==
    IF spec.TypeSizeBytes = 0 THEN HandlerInfos[h + 1].DefaultByteSize ELSE spec.TypeSizeBytes

\* The directive lacks a holder for its resolved size and handler kind.
LacksHolder(spec, h) == ~HasHolder(ResolvedSize(spec, h), HandlerInfos[h + 1].TypeBase)

\* No holder exists for the resolved size and kind: pval stays null; the
\* assertion either stops the program or lets the handler run on a null operand.
DirectiveNoOperand ==
    /\ AtDirective
    /\ TypeChar # Unmapped
    /\ FindHandler(TypeChar) # nullptr
    /\ LacksHolder(ParseDirective(mem, fpos, NoOps).spec, FindHandler(TypeChar))
    /\ pc' = "dead"
    /\ fault' \in {"abort", "nullOperand"}
    /\ hiRead' = Max(hiRead, TypePos)
    /\ UNCHANGED <<renderVars, platformVars, configVars, findVars, sinkVars, mem, formatNull, destNull, call,
                   destSize, fpos, args, argi, ret, termSent, reqChars, pass, measured>>

\* The array passed to Receive(const tArray<char>&) among the calls rxs.
RECURSIVE ArrOf(_)
ArrOf(rxs) ==
    IF rxs = << >> THEN << >>
    ELSE IF Head(rxs).op = "arr" THEN Head(rxs).str ELSE ArrOf(Tail(rxs))

\* The sink after the Receive calls rxs of a handler.
HandAll(rxs) ==
    /\ receiver' = ReceiveAll(Sink(receiver, dest), rxs).r
    /\ dest' = ReceiveAll(Sink(receiver, dest), rxs).d
    /\ delivered' = delivered \o HandedAll(rxs)

\* The handler h runs on the operand fetched for the resolved size.
RunHandler(h, spec, size, op) ==
    /\ HandAll(CallHandler(HandlerInfos[h + 1].Handler,
                           [spec EXCEPT !.TypeSizeBytes = size], Holder(op, size)))
    /\ rname' = HandlerInfos[h + 1].Handler
    /\ rspec' = [spec EXCEPT !.TypeSizeBytes = size]
    /\ rop' = Holder(op, size)
    /\ rbytes' = HolderBytes(size, HandlerInfos[h + 1].TypeBase)
    /\ rconv' = ArrOf(CallHandler(HandlerInfos[h + 1].Handler,
                                  [spec EXCEPT !.TypeSizeBytes = size], Holder(op, size)))
    /\ UNCHANGED locals

\* The Receive calls the handler h makes for the directive d and the operand op.
HandlerCalls(d, h, op) ==
    CallHandler(HandlerInfos[h + 1].Handler,
                [d.spec EXCEPT !.TypeSizeBytes = ResolvedSize(d.spec, h)],
                Holder(op, ResolvedSize(d.spec, h)))

\* The calls of rxs ahead of the first Receive(str, numChars) with numChars < 0.
RECURSIVE BeforeNegativeCount(_)
BeforeNegativeCount(rxs) ==
    IF rxs = << >> \/ (Head(rxs).op = "cnt" /\ Head(rxs).n < 0 /\ Head(rxs).str # NullStr)
    THEN << >> ELSE <<Head(rxs)>> \o BeforeNegativeCount(Tail(rxs))

NegativeCount(rxs) == BeforeNegativeCount(rxs) # rxs

\* The directive d with handler h, given the operands ops next in the va_list.
DirectiveStep(d, h, ops) ==
    /\ ~LacksHolder(d.spec, h)
    /\ ~NegativeCount(HandlerCalls(d, h, ops[d.used + 1]))
    /\ RunHandler(h, d.spec, ResolvedSize(d.spec, h), ops[d.used + 1])
    /\ args' = SubSeq(args, 1, argi) \o ops \o SubSeq(args, argi + Len(ops) + 1, Len(args))
    /\ argi' = argi + Len(ops)
    /\ fpos' = d.pos + 1
    /\ hiRead' = Max(hiRead, d.pos)

\* A whole directive: parse, fetch the operand, run the handler, step over
\* the type character.
Directive ==
    /\ AtDirective
    /\ TypeChar # Unmapped
    /\ FindHandler(TypeChar) # nullptr
    /\ \E ops \in OpsFor(StarsUsed + 1) :
          DirectiveStep(ParseDirective(mem, fpos, ops), FindHandler(TypeChar), ops)
    /\ UNCHANGED <<platformVars, configVars, findVars, mem, formatNull, destNull, call, destSize, pc,
                   ret, termSent, reqChars, pass, measured, fault>>

\* The handler passes a negative count to Receive(str, numChars) of a receiver
\* that writes into the caller's array: tMemcpy is asked for a length that,
\* converted to an unsigned size, is larger than any object.
NegativeCountStep(d, h, ops) ==
    /\ ~LacksHolder(d.spec, h)
    /\ NegativeCount(HandlerCalls(d, h, ops[d.used + 1]))
    /\ HandAll(BeforeNegativeCount(HandlerCalls(d, h, ops[d.used + 1])))
    /\ args' = SubSeq(args, 1, argi) \o ops \o SubSeq(args, argi + Len(ops) + 1, Len(args))
    /\ argi' = argi + Len(ops)

DirectiveNegativeCount ==
    /\ AtDirective
    /\ TypeChar # Unmapped
    /\ FindHandler(TypeChar) # nullptr
    /\ receiver.String # nullptr
    /\ \E ops \in OpsFor(StarsUsed + 1) :
          NegativeCountStep(ParseDirective(mem, fpos, ops), FindHandler(TypeChar), ops)
    /\ pc' = "dead"
    /\ fault' = "segv"
    /\ hiRead' = Max(hiRead, TypePos)
    /\ UNCHANGED <<renderVars, platformVars, configVars, findVars, mem, formatNull, destNull, call, destSize,
                   fpos, ret, termSent, reqChars, pass, measured>>

\* The scan reads a byte outside the memory the format string lives in.
ReadUnmapped ==
    /\ pc = "scan"
    /\ \/ ReadAt(mem, fpos) = Unmapped
       \/ ReadAt(mem, fpos) = Ord("%") /\ ReadAt(mem, fpos + 1) = Unmapped
       \/ AtDirective /\ TypeChar = Unmapped
    /\ pc' = "dead"
    /\ fault' = "segv"
    /\ hiRead' = Len(mem) + 1
    /\ UNCHANGED <<renderVars, platformVars, configVars, findVars, sinkVars, mem, formatNull, destNull, call,
                   destSize, fpos, args, argi, ret, termSent, reqChars, pass, measured>>

\* The loop ends at a null character; Process writes the terminating 0.
Terminate ==
    /\ pc = "scan"
    /\ ReadAt(mem, fpos) = NUL
    /\ Hand(RxChr(NUL))
    /\ termSent' = termSent + 1
    /\ hiRead' = Max(hiRead, fpos)
    /\ pc' = "ret"
    /\ UNCHANGED <<renderVars, platformVars, configVars, findVars, mem, formatNull, destNull, call, destSize, fpos,
                   args, argi, ret, reqChars, pass, measured, fault>>

\* tvsPrintf(tString&): tvcPrintf returned reqChars; SetLength, then the
\* rendering run over the copy of the va_list.
SecondPass ==
    /\ pc = "ret" /\ call = "tvsPrintfS" /\ pass = 1
    /\ reqChars' = GetNumReceived(receiver) - 1
    /\ measured' = delivered
    /\ receiver' = Receiver_string /\ dest' = << >> /\ delivered' = << >>
    /\ pass' = 2 /\ pc' = "scan" /\ fpos' = 1 /\ argi' = 0 /\ termSent' = 0
    /\ UNCHANGED <<renderVars, platformVars, configVars, findVars, mem, formatNull, destNull, call, destSize,
                   args, ret, hiRead, fault>>

\* The tail of the sized tvsPrintf without its terminator repair.
WriteMissingTerminator_Skipped(d, size, rec) == d

\* if (destSize == rec) dest[len] = 0, with len = rec - 1.
WriteMissingTerminator(d, size, rec) ==
    IF size = rec THEN WriteCells(d, rec - 1, <<NUL>>) ELSE d

\* The statements after the call of Process, up to the return.
Return ==
    /\ pc = "ret" /\ ~(call = "tvsPrintfS" /\ pass = 1)
    /\ ret' = GetNumReceived(receiver) - 1
    /\ dest' = IF call = "tvsPrintfN"
               THEN WriteMissingTerminator(dest, destSize, GetNumReceived(receiver))
               ELSE dest
    /\ pc' = "done"
    /\ UNCHANGED <<renderVars, platformVars, configVars, findVars, receiver, delivered, mem, formatNull, destNull,
                   call, destSize, fpos, args, argi, hiRead, termSent, reqChars, pass,
                   measured, fault>>

Next ==
    \/ Enter
    \/ Literal
    \/ Escape
    \/ Directive
    \/ DirectiveNoHandler
    \/ DirectiveNoOperand
    \/ ReadUnmapped
    \/ Terminate
    \/ SecondPass
    \/ Return

Spec == Init /\ [][Next]_vars

----------------------------------------------------------------------------
(* Claims about the Receiver.                                              *)

Bound(r) == r.String # nullptr /\ r.ReceiveLimit # -1

\* C1 as stated: a receiver bound to a fixed-capacity string with receive
\* limit C keeps counting after it stopped copying: GetNumReceived() is the
\* number N of characters handed to it, also when N > C, and the first
\* min(N, C) of them are stored.
C1_CountsPastLimit ==
    (pc = "recv" /\ Bound(receiver)) =>
        /\ GetNumReceived(receiver) = Len(delivered)
        /\ dest = SubSeq(delivered, 1, Min(Len(delivered), receiver.ReceiveLimit))

\* C1 amended: a receiver bound to a string with receive limit C stops
\* counting where it stops copying: after N characters were handed to it
\* GetNumReceived() is min(N, C), and exactly the first min(N, C) are stored.
C1_CountStopsAtLimit ==
    (pc = "recv" /\ Bound(receiver)) =>
        /\ GetNumReceived(receiver) = Min(Len(delivered), receiver.ReceiveLimit)
        /\ dest = SubSeq(delivered, 1, Min(Len(delivered), receiver.ReceiveLimit))

C1_Witness ==
    /\ pc = "recv" /\ Bound(receiver)
    /\ receiver.ReceiveLimit = 3
    /\ Len(delivered) > receiver.ReceiveLimit
    /\ GetNumReceived(receiver) = 3
    /\ Len(dest) = 3

----------------------------------------------------------------------------
(* Claims about the registry.                                              *)

\* The entry for type that a lookup has to return: the one registry entry
\* whose SpecChar is type, nullptr when there is none.
EntriesFor(type) == {i \in 0..(NumHandlers - 1) : HandlerInfos[i + 1].SpecChar = type}
EntryFor(type) ==
    IF EntriesFor(type) = {} THEN nullptr ELSE CHOOSE i \in EntriesFor(type) : TRUE

DirectiveChars ==
    {Ord(ch) : ch \in {"b", "o", "d", "i", "u", "x", "X", "p", "e", "f", "g", "v", "q",
                       "m", "c", "s", "B"}}

\* C7: handler lookup is total and unambiguous over all 256 char codes: the
\* directive characters are pairwise distinct, FindHandler(c) indexes only
\* inside the 256-entry jump table, and it returns the unique entry whose
\* SpecChar is c, or null when c is not a directive character.
C7_LookupTotalInBounds ==
    /\ \A i, j \in 1..NumHandlers :
          HandlerInfos[i].SpecChar = HandlerInfos[j].SpecChar => i = j
    /\ ~foob
    /\ fpc = "done" =>
          /\ fres = EntryFor(ftype)
          /\ (fres = nullptr) = (ftype \notin DirectiveChars)

\* C8: the jump-table fast path agrees with the linear scan for every
\* character: a slot holds -1 or the index of the entry for the slot's
\* character, every registry entry is reachable through its slot, and a
\* slot whose entry is for another character is not trusted.
C8_JumpTableAgreesWithScan ==
    /\ \A c \in 0..255 :
          \/ HandlerJumpTable[c + 1] = -1
          \/ /\ HandlerJumpTable[c + 1] \in 0..(NumHandlers - 1)
             /\ HandlerInfos[HandlerJumpTable[c + 1] + 1].SpecChar = c
    /\ \A i \in 0..(NumHandlers - 1) :
          HandlerJumpTable[HandlerInfos[i + 1].SpecChar + 1] = i
    /\ fpc = "done" => fres = LinearScan(ftype)
    /\ (fpc = "done" /\ fpath = "jump") => HandlerInfos[fres + 1].SpecChar = ftype

C8_Witness ==
    /\ fpc = "done" /\ fpath = "jump"
    /\ ftype = Ord("x") /\ fres = 5

----------------------------------------------------------------------------
(* Claims about the print functions.                                       *)

\* A call that ran Process to its end and returned.
Returned == pc = "done" /\ delivered # << >>

\* L: the characters Process delivered ahead of its last character.
Rendered == SubSeq(delivered, 1, Len(delivered) - 1)

\* C2 as stated: when the full text has L > destSize characters, the sized
\* tvsPrintf copies destSize of them, leaves a null within the capacity and
\* returns L, the length the text needs.
C2_ReturnsRequiredLength ==
    (call = "tvsPrintfN" /\ Returned /\ Len(Rendered) > destSize) =>
        /\ ret = Len(Rendered)
        /\ Len(dest) <= destSize
        /\ \E k \in 1..Len(dest) : dest[k] = NUL

\* C2 amended: when the full text has L > destSize characters, the sized
\* tvsPrintf returns destSize - 1 and dest holds the first destSize - 1
\* characters of the text, followed by a null at index destSize - 1.
C2_ReturnsStoredLength ==
    (call = "tvsPrintfN" /\ Returned /\ Len(Rendered) > destSize) =>
        /\ ret = destSize - 1
        /\ dest = SubSeq(Rendered, 1, destSize - 1) \o <<NUL>>

C2_Witness ==
    /\ call = "tvsPrintfN" /\ Returned
    /\ destSize = 3 /\ Len(Rendered) = 10
    /\ ret = 2 /\ Len(dest) = 3

C5_ScanStopsAtTerminator ==
    mem # << >> => fpos <= TermIdx /\ hiRead <= TermIdx

\* C6: a directive whose type character has no handler, or whose resolved
\* size has no holder for the handler's kind, makes Process neither read the
\* fields of a null HandlerInfo nor run a handler on a null operand.
C6_NoNullHandlerOrOperand ==
    fault \notin {"nullHandler", "nullOperand"}

\* The characters that can start a directive after a percent sign.
DirectiveStarters ==
    FlagChars \cup {Ord(ch) : ch \in {"0", "1", "2", "3", "4", "5", "6", "7", "8", "9",
                                      ".", "*", ":", "!", "|"}}
              \cup DirectiveChars

\* C9: when the scan is at a percent sign followed by a character that
\* cannot start a directive, the step delivers exactly that character,
\* takes no operand and moves the format pointer by two.
C9_EscapeDeliversNextChar ==
    [][(/\ pc = "scan"
        /\ ReadAt(mem, fpos) = Ord("%")
        /\ ReadAt(mem, fpos + 1) \in 0..255
        /\ ReadAt(mem, fpos + 1) \notin DirectiveStarters)
       => /\ delivered' = Append(delivered, mem[fpos + 1])
          /\ argi' = argi /\ args' = args
          /\ fpos' = fpos + 2]_vars

\* Two percent signs at the head of the format were rendered as one.
C9_Witness ==
    /\ pc = "scan" /\ fpos = 3
    /\ mem[1] = Ord("%") /\ mem[2] = Ord("%")
    /\ delivered = <<Ord("%")>> /\ argi = 0

\* C10: Process hands over the terminating null once, as the last character
\* and after the whole format was processed, and tvPrintf, tvsPrintf,
\* tvcPrintf and tvfPrintf return the number of delivered characters less
\* that terminator.
C10_TerminatorOnceAndLast ==
    /\ termSent <= 1
    /\ termSent = 1 => pc \in {"ret", "done"} /\ delivered[Len(delivered)] = NUL
    /\ (Returned /\ call \in {"tvPrintf", "tvsPrintf", "tvcPrintf", "tvfPrintf"}) =>
          termSent = 1 /\ ret = Len(delivered) - 1

----------------------------------------------------------------------------
(* One directive at a time: tvsPrintf called with a format that is a single *)
(* directive built from its fields.                                         *)

MaxFlagChars == 2              \* flag characters in a directive

FlagRuns == UNION {[1..n -> FlagChars] : n \in 0..MaxFlagChars}

WidthTexts     == {<< >>, Txt(<<"5">>), Txt(<<"1", "2">>), Txt(<<"*">>)}
PrecisionTexts == {<< >>, Txt(<<".">>), Txt(<<".", "3">>), Txt(<<".", "*">>)}
SizeTexts ==
    { << >>, Txt(<<":", "1">>), Txt(<<":", "2">>), Txt(<<"!", "4">>), Txt(<<"!", "8">>),
      Txt(<<"|", "3", "2">>), Txt(<<"|", "6", "4">>), Txt(<<"|", "4">>), Txt(<<"!", "0">>),
      Txt(<<"!", "5">>) }

\* %[flags][width][.precision][:typesize][!typesize][|typesize]type
DirectiveText(flags, width, precision, size, type) ==
    <<Ord("%")>> \o flags \o width \o precision \o size \o <<Ord(type)>>

DirFormats ==
    { DirectiveText(f, w, << >>, << >>, "d") : f \in FlagRuns, w \in {<< >>, Txt(<<"4">>)} }
    \cup { DirectiveText(<< >>, w, p, << >>, t) :
              w \in WidthTexts, p \in PrecisionTexts, t \in {"d", "s"} }
    \cup { DirectiveText(<< >>, << >>, << >>, z, t) : z \in SizeTexts, t \in {"d", "x", "c"} }

DirInit ==
    /\ PlatformIdle /\ ConfigIdle /\ FindIdle /\ SinkIdle /\ RenderIdle
    /\ call = "tvsPrintf" /\ formatNull = FALSE /\ destNull = FALSE /\ destSize = 0
    /\ mem \in {f \o <<NUL, NUL>> : f \in DirFormats}
    /\ pc = "enter" /\ fpos = 1 /\ args = << >> /\ argi = 0
    /\ ret = 0 /\ hiRead = 0 /\ termSent = 0 /\ reqChars = 0 /\ pass = 1
    /\ measured = << >> /\ fault = "none"

DirNext ==
    Enter \/ Directive \/ DirectiveNoOperand \/ DirectiveNegativeCount \/ Terminate \/ Return

SpecDir == DirInit /\ [][DirNext]_vars

----------------------------------------------------------------------------
(* Properties of the parsed directive.                                      *)

\* A handler has been called for the directive of the format.
HandlerCalled == rname # "none"

\* The index of the first character after the flag characters of the directive.
RECURSIVE FlagsEnd(_)
FlagsEnd(p) == IF mem[p] \in FlagChars THEN FlagsEnd(p + 1) ELSE p

\* The flag characters that occur in the directive, whatever their order or number.
FlagCharsGiven == {mem[p] : p \in 2..(FlagsEnd(2) - 1)}

\* The flag each flag character stands for.
OwnFlag ==
    [c \in FlagChars |->
        CASE c = Ord("-") -> "LeftJustify"
          [] c = Ord("+") -> "ForcePosOrNegSign"
          [] c = Ord(" ") -> "SpaceForPosSign"
          [] c = Ord("0") -> "LeadingZeros"
          [] c = Ord("_") -> "DecorativeFormatting"
          [] c = Ord("'") -> "DecorativeFormattingAlt"
          [] c = Ord("#") -> "BasePrefix"]

FlagsGiven == {OwnFlag[c] : c \in FlagCharsGiven}

\* C11: the flags the handler is passed are those of the set of flag
\* characters that occur before the width, each character setting its own
\* flag whatever the order and the repetitions, except that LeadingZeros is
\* cleared (and LeftJustify kept) when both of them were given.
C11_FlagsFromCharSet ==
    HandlerCalled =>
        rspec.Flags = IF {"LeadingZeros", "LeftJustify"} \subseteq FlagsGiven
                      THEN FlagsGiven \ {"LeadingZeros"} ELSE FlagsGiven

\* Both '-' and '0' were given, in either order, and the handler ran.
C11_Witness ==
    /\ HandlerCalled
    /\ FlagCharsGiven = {Ord("-"), Ord("0")}
    /\ rspec.Flags = {"LeftJustify"}

\* The index of the first character at or after p that is not a decimal digit.
RECURSIVE DigitsEnd(_)
DigitsEnd(p) == IF mem[p] \in Ord("0")..Ord("9") THEN DigitsEnd(p + 1) ELSE p

\* The number written in decimal at indices p .. q - 1 (0 when there is no digit).
RECURSIVE DecimalValue(_, _)
DecimalValue(p, q) ==
    IF q <= p THEN 0 ELSE DecimalValue(p, q - 1) * 10 + (mem[q - 1] - Ord("0"))

\* The fields of the directive as they are written in the format.
WidthAt        == FlagsEnd(2)
WidthIsStar    == mem[WidthAt] = Ord("*")
WidthEnd       == IF WidthIsStar THEN WidthAt + 1 ELSE DigitsEnd(WidthAt)
HasPrecision   == mem[WidthEnd] = Ord(".")
PrecisionIsStar == HasPrecision /\ mem[WidthEnd + 1] = Ord("*")
StarCount      == (IF WidthIsStar THEN 1 ELSE 0) + (IF PrecisionIsStar THEN 1 ELSE 0)

\* C12: digits give the literal width and precision, an asterisk takes the
\* next int operand, a '.' without digits gives precision 0 and no '.' gives
\* -1; the operands are taken in the order width, precision, value, and the
\* directive takes exactly one value operand: the one after its asterisks.
C12_WidthPrecisionAndOperandOrder ==
    HandlerCalled =>
        /\ rspec.Width = IF WidthIsStar THEN ToInt32(args[1].i)
                         ELSE DecimalValue(WidthAt, WidthEnd)
        /\ rspec.Precision =
              IF ~HasPrecision THEN -1
              ELSE IF PrecisionIsStar THEN ToInt32(args[StarCount].i)
              ELSE DecimalValue(WidthEnd + 1, DigitsEnd(WidthEnd + 1))
        /\ argi = StarCount + 1
        /\ Len(args) = StarCount + 1
        /\ rop = Holder(args[StarCount + 1], rspec.TypeSizeBytes)

\* "%*.*d" was given three operands, no two of them equal.
C12_Witness ==
    /\ HandlerCalled
    /\ WidthIsStar /\ PrecisionIsStar
    /\ Len(args) = 3
    /\ args[1] # args[2] /\ args[2] # args[3] /\ args[1] # args[3]
    /\ rspec.Width = 7 /\ rspec.Precision = -3

\* Where the size override of the directive would start, and what is written there.
PrecisionEnd ==
    IF ~HasPrecision THEN WidthEnd
    ELSE IF PrecisionIsStar THEN WidthEnd + 2 ELSE DigitsEnd(WidthEnd + 1)

HasOverride == mem[PrecisionEnd] \in {Ord(":"), Ord("!"), Ord("|")}
OverrideN   == DecimalValue(PrecisionEnd + 1, DigitsEnd(PrecisionEnd + 1))
TypeAt      == IF HasOverride THEN DigitsEnd(PrecisionEnd + 1) ELSE PrecisionEnd

\* The bytes the override asks for; 0 stands for "use the handler's default".
OverrideBytes ==
    CASE ~HasOverride                  -> 0
      [] mem[PrecisionEnd] = Ord(":")  -> OverrideN * 4
      [] mem[PrecisionEnd] = Ord("!")  -> OverrideN
      [] mem[PrecisionEnd] = Ord("|")  -> OverrideN \div 8

DefaultBytes == HandlerInfos[FindHandler(mem[TypeAt]) + 1].DefaultByteSize

----------------------------------------------------------------------------
(* One handler at a time: a handler called with a FormatSpec that Process  *)
(* can build and an operand of the size the FormatSpec names, on a         *)
(* receiver that keeps every character.                                    *)

MaxFlags     == 2              \* flags set in a FormatSpec
MaxWidth     == 12             \* largest width
MaxPrecision == 2              \* largest precision

AllFlags ==
    { Flag_ForcePosOrNegSign, Flag_SpaceForPosSign, Flag_LeadingZeros, Flag_LeftJustify,
      Flag_DecorativeFormatting, Flag_DecorativeFormattingAlt, Flag_BasePrefix }

\* Process never passes on LeadingZeros together with LeftJustify.
RenderFlagSets ==
    { S \in SUBSET AllFlags :
        Cardinality(S) <= MaxFlags /\ ~({Flag_LeadingZeros, Flag_LeftJustify} \subseteq S) }

\* The 128-bit operands are rendered with at most one flag.
TacentFlagSets == {S \in RenderFlagSets : Cardinality(S) <= 1}

RenderWidths     == {0, 5, MaxWidth}
RenderPrecisions == {-1, 0, MaxPrecision}

IntegerHandlers ==
    { "Handler_b", "Handler_o", "Handler_d", "Handler_i", "Handler_u", "Handler_x",
      "Handler_X", "Handler_p" }
TextHandlers == {"Handler_c", "Handler_s", "Handler_B"}

MinInt64 == <<LimbBase \div 2, 0, 0, 0>>

\* Operands by size in bytes: zero, small values, values that fill several
\* digit groups, the most negative value (-42 at 16 bytes) and all ones.
IntegerValues(size) ==
    CASE size = 4  -> { SubSeq(U64(n), 3, 4) : n \in {0, 7, 42, -42, 255, 1234567, -1} }
                      \cup { <<LimbBase \div 2, 0>> }
      [] size = 8  -> { U64(0), U64(-42), MinInt64, U64(-1), <<0, 291, 17767, 35243>> }
      [] size = 16 -> { <<0, 0, 0, 0, 0, 0, 0, 0>>,
                        <<65535, 65535, 65535, 65535, 65535, 65535, 65535, 65494>>,
                        <<65535, 65535, 65535, 65535, 65535, 65535, 65535, 65535>>,
                        <<0, 0, 0, 0, 1, 9320, 4660, 22136>> }

RenderTexts == {<< >>, Txt(<<"a", "b">>), Txt(<<"h", "e", "l", "l", "o">>)}

RenderSizes(name) ==
    CASE name = "Handler_p"        -> {4, 8}
      [] name \in IntegerHandlers  -> {4, 8}
      [] name = "Handler_s"        -> {PointerSize}
      [] OTHER                     -> {4}

RenderOperands(name, size) ==
    CASE name \in IntegerHandlers -> {[i |-> v, s |-> << >>] : v \in IntegerValues(size)}
      [] name = "Handler_s"       -> {[i |-> U64(0), s |-> t] : t \in RenderTexts}
      [] name = "Handler_c"       -> {[i |-> <<0, Ord("c")>>, s |-> << >>]}
      [] name = "Handler_B"       -> {[i |-> <<0, b>>, s |-> << >>] : b \in {0, 1}}

\* rawValue = -(int64(rawValue)) is applied to the most negative int64: the
\* negation overflows, and what the program does next is up to the build.
NegationOverflows(name, spec, data) ==
    /\ name \in {"Handler_d", "Handler_i"}
    /\ spec.TypeSizeBytes = 8
    /\ data.i = MinInt64

RenderInit ==
    /\ charSigned = FALSE /\ strayInt = nullptr /\ windows = FALSE /\ ConfigIdle
    /\ FindIdle
    /\ receiver = Receiver_buffer /\ dest = << >> /\ delivered = << >>
    /\ mem = << >> /\ formatNull = FALSE /\ destNull = FALSE /\ call = "handler"
    /\ destSize = 0 /\ pc = "handler" /\ fpos = 1 /\ args = << >> /\ argi = 0
    /\ ret = 0 /\ hiRead = 0 /\ termSent = 0 /\ reqChars = 0 /\ pass = 1
    /\ measured = << >> /\ fault = "none"
    /\ \/ /\ rname \in IntegerHandlers \cup TextHandlers
          /\ rbytes \in RenderSizes(rname)
          /\ rspec \in [Flags : RenderFlagSets, Width : RenderWidths,
                        Precision : RenderPrecisions, TypeSizeBytes : {rbytes}]
       \/ /\ rname \in IntegerHandlers \ {"Handler_p"}
          /\ rbytes = 16
          /\ rspec \in [Flags : TacentFlagSets, Width : {0, MaxWidth},
                        Precision : {-1, MaxPrecision}, TypeSizeBytes : {rbytes}]
    /\ rop \in RenderOperands(rname, rbytes)
    /\ rconv = << >> /\ locals = NoLocals
    /\ negTraps \in (IF NegationOverflows(rname, rspec, rop) THEN BOOLEAN ELSE {FALSE})

\* The handler runs and returns.
HandlerReturns ==
    /\ pc = "handler"
    /\ ~(NegationOverflows(rname, rspec, rop) /\ negTraps)
    /\ HandAll(CallHandler(rname, rspec, rop))
    /\ rconv' = ArrOf(CallHandler(rname, rspec, rop))
    /\ UNCHANGED locals
    /\ pc' = "handled"
    /\ UNCHANGED <<rname, rspec, rop, rbytes, platformVars, configVars, findVars, mem, formatNull, destNull, call,
                   destSize, fpos, args, argi, ret, hiRead, termSent, reqChars, pass,
                   measured, fault>>

\* The handler negates the most negative int64 in a build that traps on overflow.
HandlerTraps ==
    /\ pc = "handler"
    /\ NegationOverflows(rname, rspec, rop) /\ negTraps
    /\ pc' = "dead"
    /\ fault' = "overflow"
    /\ UNCHANGED <<renderVars, platformVars, configVars, findVars, sinkVars, mem, formatNull, destNull,
                   call, destSize, fpos, args, argi, ret, hiRead, termSent, reqChars, pass,
                   measured>>

RenderNext == HandlerReturns \/ HandlerTraps

SpecRender == RenderInit /\ [][RenderNext]_vars

----------------------------------------------------------------------------
(* Properties of the integer handlers.                                      *)

\* The handler returned; delivered is the text of the directive.
Handled == pc = "handled"

\* The base each integer handler renders in.
BaseOf(name) ==
    CASE name = "Handler_b" -> 2
      [] name = "Handler_o" -> 8
      [] name \in {"Handler_d", "Handler_i", "Handler_u"} -> 10
      [] OTHER -> 16

SignedHandlers == {"Handler_d", "Handler_i"}

\* The value of a digit character.
DigitValue(c) ==
    IF c \in Ord("0")..Ord("9") THEN c - Ord("0")
    ELSE IF c \in Ord("a")..Ord("f") THEN c - Ord("a") + 10
    ELSE c - Ord("A") + 10

\* v * base + d at the width of v, wrapping; limb i and the carry into it.
RECURSIVE MulAddFrom(_, _, _, _)
MulAddFrom(v, base, i, carry) ==
    IF i = 0 THEN << >>
    ELSE Append(MulAddFrom(v, base, i - 1, (v[i] * base + carry) \div LimbBase),
                (v[i] * base + carry) % LimbBase)
MulAdd(v, base, d) == MulAddFrom(v, base, Len(v), d)

\* The number a digit string denotes in a base, at the width of acc (a
\* number of no limbs stays as it is, whatever the digits).
RECURSIVE ParseDigitString(_, _, _)
ParseDigitString(text, base, acc) ==
    IF text = << >> \/ Len(acc) = 0 THEN acc
    ELSE ParseDigitString(Tail(text), base, MulAdd(acc, base, DigitValue(Head(text))))

\* The two's-complement operand a rendered text denotes: digits, or '-' and
\* the digits of the negation.
ParseBack(text, base, limbs) ==
    IF text # << >> /\ Head(text) = Ord("-")
    THEN Negate(ParseDigitString(Tail(text), base, [k \in 1..limbs |-> 0]))
    ELSE ParseDigitString(text, base, [k \in 1..limbs |-> 0])

\* No flag, no width, no precision.
PlainSpec == rspec.Flags = {} /\ rspec.Width = 0 /\ rspec.Precision = -1

\* One of b, o, d, i, u, x, X was called on a 32- or 64-bit operand with a plain FormatSpec.
PlainNativeCall ==
    /\ call = "handler" /\ pc # "handler"
    /\ rname \in IntegerHandlers \ {"Handler_p"}
    /\ rbytes \in {4, 8}
    /\ PlainSpec

C14_RoundTripWhenReturned ==
    (PlainNativeCall /\ Handled) => ParseBack(delivered, BaseOf(rname), Len(rop.i)) = rop.i

\* The rendered number: what the handler's conversion buffer holds when it
\* is handed to the receiver between the prolog and the epilog.
Number == rconv

IntegerHandled == Handled /\ rname \in IntegerHandlers

\* The operand's top bit is set.
TopBitSet == rop.i[1] >= LimbBase \div 2

SignChars == {Ord("-"), Ord("+"), Ord(" ")}

\* The characters of a text that are not in a set.
RECURSIVE Without(_, _)
Without(text, chars) ==
    IF text = << >> THEN << >>
    ELSE (IF Head(text) \in chars THEN << >> ELSE <<Head(text)>>) \o Without(Tail(text), chars)

\* The sign the policy asks for in front of a number rendered by d or i.
ExpectedSign ==
    IF TopBitSet THEN <<Ord("-")>>
    ELSE IF "ForcePosOrNegSign" \in rspec.Flags THEN <<Ord("+")>>
    ELSE IF "SpaceForPosSign" \in rspec.Flags THEN <<Ord(" ")>>
    ELSE << >>

Natural ==
    ArrOf(CallHandler(rname, [rspec EXCEPT !.Flags = @ \ {"LeadingZeros"}], rop))

\* How many characters of a number are its sign and its hexadecimal prefix.
SignLen(text) == IF text # << >> /\ Head(text) \in SignChars THEN 1 ELSE 0
HexPrefixLen(text, from) ==
    IF /\ BaseOf(rname) = 16 /\ "BasePrefix" \in rspec.Flags /\ Len(text) >= from + 1
       /\ text[from] = Ord("0") /\ text[from + 1] \in {Ord("x"), Ord("X")}
    THEN 2 ELSE 0
FrontLen(text) == SignLen(text) + HexPrefixLen(text, SignLen(text) + 1)

\* An integer handler other than %p was called with LeadingZeros, without a
\* precision and without a grouping flag.
ZeroPadCall ==
    /\ IntegerHandled /\ rname # "Handler_p"
    /\ "LeadingZeros" \in rspec.Flags
    /\ rspec.Precision = -1
    /\ rspec.Flags \cap {"DecorativeFormatting", "DecorativeFormattingAlt"} = {}

\* C16: with LeadingZeros, no precision and no grouping, the text delivered
\* is the number alone (no space padding) and has max(width, natural length)
\* characters: the natural rendering with zeros put between its sign and
\* prefix and its digits.
C16_ZeroPadToWidth ==
    ZeroPadCall =>
        /\ delivered = Number
        /\ Len(Number) = Max(rspec.Width, Len(Natural))
        /\ Number = SubSeq(Natural, 1, FrontLen(Natural))
                    \o Repeat(Ord("0"), Len(Number) - Len(Natural))
                    \o SubSeq(Natural, FrontLen(Natural) + 1, Len(Natural))

\* "%05d" of -42 is "-0042".
C16_Witness ==
    /\ ZeroPadCall
    /\ rname = "Handler_d" /\ rspec.Width = 5 /\ rspec.Flags = {"LeadingZeros"}
    /\ rop.i = SubSeq(U64(-42), 3, 4)
    /\ delivered = Txt(<<"-", "0", "0", "4", "2">>)

\* "%05d" of 0 is "00000".
C16_ZeroIsAllZeros ==
    (ZeroPadCall /\ rname = "Handler_d" /\ rspec.Width = 5 /\ rspec.Flags = {"LeadingZeros"}
     /\ IsZero(rop.i))
        => delivered = Txt(<<"0", "0", "0", "0", "0">>)

\* An integer handler other than %p was called with LeadingZeros and an
\* explicit precision.
ZeroFlagWithPrecisionCall ==
    /\ IntegerHandled /\ rname # "Handler_p"
    /\ "LeadingZeros" \in rspec.Flags
    /\ rspec.Precision # -1

\* C17: with an explicit precision the LeadingZeros flag has no effect: the
\* precision gives the least number of digits and the fill up to the width
\* is made of spaces, never of '0'.
C17_PrecisionDisablesZeroFill ==
    ZeroFlagWithPrecisionCall =>
        delivered = Repeat(Ord(" "), rspec.Width - Len(Number)) \o Number

\* What the code does: the number itself is not zero filled, but the prolog
\* pads it with '0' up to the width.
C17_PrologPadsWithZeros ==
    ZeroFlagWithPrecisionCall =>
        /\ Number = Natural
        /\ delivered = Repeat(Ord("0"), rspec.Width - Len(Number)) \o Number

\* The prefix the policy asks for.
ExpectedPrefix ==
    IF rname = "Handler_p" THEN Txt(<<"0", "x">>)
    ELSE IF "BasePrefix" \notin rspec.Flags \/ IsZero(rop.i) THEN << >>
    ELSE CASE rname = "Handler_o" -> Txt(<<"0">>)
           [] rname = "Handler_x" -> Txt(<<"0", "x">>)
           [] rname = "Handler_X" -> Txt(<<"0", "X">>)
           [] OTHER               -> << >>

\* The number the same handler renders without the BasePrefix flag in a field
\* that is narrower by the length of the prefix.
Unprefixed ==
    ArrOf(CallHandler(rname, [rspec EXCEPT !.Flags = @ \ {"BasePrefix"},
                                           !.Width = @ - Len(ExpectedPrefix)], rop))

\* The width %p uses, and the digits of its operand.
PointerWidth  == IF rspec.Width = 0 THEN 2 + 2 * rbytes ELSE rspec.Width
PointerDigits ==
    ArrOf(CallHandler("Handler_X", [FormatSpec EXCEPT !.TypeSizeBytes = rbytes], rop))

\* C18: BasePrefix puts "0" in front of an octal number and "0x" (x) or
\* "0X" (X) in front of a hexadecimal one when the value is not zero, and
\* nothing for zero or in bases 2 and 10; %p always starts with a lower-case
\* "0x", for zero too.  The prefix takes its length out of the field width.
C18_BasePrefix ==
    IntegerHandled =>
        /\ Len(delivered) = Max(IF rname = "Handler_p" THEN PointerWidth ELSE rspec.Width,
                                Len(Number))
        /\ IF rname # "Handler_p"
           THEN Number = ExpectedPrefix \o Unprefixed
           ELSE /\ SubSeq(Number, 1, 2) = ExpectedPrefix
                /\ ParseDigitString(Without(SubSeq(Number, 3, Len(Number)),
                                            {Ord("_"), Ord(",")}),
                                    16, [k \in 1..Len(rop.i) |-> 0]) = rop.i
                /\ (rspec.Precision = -1 /\ rspec.Flags \cap {"DecorativeFormatting",
                                                             "DecorativeFormattingAlt"} = {})
                      => Number = ExpectedPrefix
                                  \o Repeat(Ord("0"), PointerWidth - 2 - Len(PointerDigits))
                                  \o PointerDigits

\* "%#05x" of 255 is "0x0ff": the prefix takes two of the five columns.
C18_Witness ==
    /\ IntegerHandled
    /\ rname = "Handler_x" /\ rspec.Flags = {"BasePrefix", "LeadingZeros"}
    /\ rspec.Width = 5 /\ rspec.Precision = -1
    /\ rop.i = SubSeq(U64(255), 3, 4)
    /\ delivered = Txt(<<"0", "x", "0", "f", "f">>)

\* %p of a null pointer of 4 bytes is "0x00000000".
C18_NullPointer ==
    (IntegerHandled /\ rname = "Handler_p" /\ rbytes = 4 /\ IsZero(rop.i)
     /\ rspec.Flags = {} /\ rspec.Width = 0 /\ rspec.Precision = -1)
        => delivered = Txt(<<"0", "x", "0", "0", "0", "0", "0", "0", "0", "0">>)

\* A grouping flag is set.
GroupingCall ==
    /\ IntegerHandled
    /\ rspec.Flags \cap {"DecorativeFormatting", "DecorativeFormattingAlt"} # {}

\* The separator and the group size the flags and the operand size ask for.
GroupSeparator == IF "DecorativeFormatting" \in rspec.Flags THEN Ord("_") ELSE Ord(",")
GroupSize ==
    IF "DecorativeFormatting" \notin rspec.Flags THEN 3
    ELSE IF rbytes \in {4, 8} THEN 4 ELSE 8

\* The number the same handler renders without the grouping flags.
Ungrouped ==
    ArrOf(CallHandler(rname,
                      [rspec EXCEPT !.Flags = @ \ {"DecorativeFormatting",
                                                   "DecorativeFormattingAlt"}], rop))

\* Digits cut into groups of g from the right, with sep between the groups.
RECURSIVE GroupRight(_, _, _)
GroupRight(digits, g, sep) ==
    IF Len(digits) <= g THEN digits
    ELSE GroupRight(SubSeq(digits, 1, Len(digits) - g), g, sep)
         \o <<sep>> \o SubSeq(digits, Len(digits) - g + 1, Len(digits))

\* The sign and the prefix in front of the digits of the ungrouped number.
UngroupedFront == SignLen(Ungrouped) + Len(ExpectedPrefix)

\* C19: with a grouping flag the digits are cut into groups from the right,
\* by ',' every 3 digits for the Alt flag and by '_' every 4 digits for 32-
\* and 64-bit operands and every 8 digits for wider ones, '_' winning when
\* both flags are set; only the leftmost group may be shorter, no separator
\* stands before the first or after the last digit, and the sign and the
\* prefix stay in front and are not counted.
C19_GroupsFromTheRight ==
    GroupingCall =>
        Number = SubSeq(Ungrouped, 1, UngroupedFront)
                 \o GroupRight(SubSeq(Ungrouped, UngroupedFront + 1, Len(Ungrouped)),
                               GroupSize, GroupSeparator)

\* "%_'d" of 1234567 is "123_4567".
C19_Witness ==
    /\ GroupingCall
    /\ rname = "Handler_d" /\ rbytes = 4
    /\ rspec.Flags = {"DecorativeFormatting", "DecorativeFormattingAlt"}
    /\ rspec.Width = 0 /\ rspec.Precision = -1
    /\ rop.i = SubSeq(U64(1234567), 3, 4)
    /\ delivered = Txt(<<"1", "2", "3", "_", "4", "5", "6", "7">>)

\* "%_|128x" of 0x1246812345678 is "12468_12345678": groups of 8.
C19_WideGroupsOfEight ==
    (GroupingCall /\ rname = "Handler_x" /\ rbytes = 16
     /\ rspec.Flags = {"DecorativeFormatting"} /\ rspec.Width = 0 /\ rspec.Precision = -1
     /\ rop.i = <<0, 0, 0, 0, 1, 9320, 4660, 22136>>)
        => delivered = Txt(<<"1", "2", "4", "6", "8", "_", "1", "2", "3", "4", "5", "6", "7", "8">>)

----------------------------------------------------------------------------
(* Justification.                                                           *)

\* The item a handler puts between the prolog and the epilog: the string cut
\* to the precision, the character, the word for the bool, the number.
Item ==
    CASE rname = "Handler_s" ->
            SubSeq(rop.s, 1, IF rspec.Precision # -1 THEN Min(Len(rop.s), rspec.Precision)
                             ELSE Len(rop.s))
      [] rname = "Handler_c" -> <<rop.i[Len(rop.i)] % 256>>
      [] rname = "Handler_B" ->
            IF "DecorativeFormatting" \in rspec.Flags
            THEN (IF IsZero(rop.i) THEN Txt(<<"F">>) ELSE Txt(<<"T">>))
            ELSE IF "DecorativeFormattingAlt" \in rspec.Flags
            THEN (IF IsZero(rop.i) THEN Txt(<<"N">>) ELSE Txt(<<"Y">>))
            ELSE (IF IsZero(rop.i) THEN Txt(<<"f", "a", "l", "s", "e">>)
                  ELSE Txt(<<"t", "r", "u", "e">>))
      [] OTHER -> Number

\* A handler that justifies with the FormatSpec it was passed has returned.
JustifiedCall == Handled /\ rname # "Handler_p"

PadLength == Max(0, rspec.Width - Len(Item))

\* C20: the item is delivered with max(0, w - len) pad characters on one
\* side: in front when LeftJustify is clear ('0' with LeadingZeros, else
\* spaces), behind and as spaces when LeftJustify is set; nothing is added
\* when w <= len, so max(w, len) characters are delivered.
C20_Justification ==
    JustifiedCall =>
        /\ delivered =
              IF "LeftJustify" \in rspec.Flags
              THEN Item \o Repeat(Ord(" "), PadLength)
              ELSE Repeat(IF "LeadingZeros" \in rspec.Flags THEN Ord("0") ELSE Ord(" "),
                          PadLength) \o Item
        /\ Len(delivered) = Max(rspec.Width, Len(Item))

\* "%-5s" of "ab" is "ab" and three spaces.
C20_Witness ==
    /\ JustifiedCall
    /\ rname = "Handler_s" /\ rop.s = Txt(<<"a", "b">>)
    /\ rspec.Flags = {"LeftJustify"} /\ rspec.Width = 5 /\ rspec.Precision = -1
    /\ delivered = Txt(<<"a", "b", " ", " ", " ">>)

\* "%5s" of "ab" is three spaces and "ab".
C20_RightJustified ==
    (JustifiedCall /\ rname = "Handler_s" /\ rop.s = Txt(<<"a", "b">>)
     /\ rspec.Flags = {} /\ rspec.Width = 5 /\ rspec.Precision = -1)
        => delivered = Txt(<<" ", " ", " ", "a", "b">>)


----------------------------------------------------------------------------
(* One call of a floating point handler, for every FormatSpec over a few   *)
(* flags, widths and precisions and a double operand from a few values.    *)

FloatHandlers == {"Handler_f", "Handler_e", "Handler_g"}

\* Magnitudes in units of 1/FScale: 0, 0.125, 0.5, 0.996, 1, 2.5, 9.5, 9.999,
\* 99.5, 1234.5 and 123456.
FloatMagnitudes == {0, 125, 500, 996, 1000, 2500, 9500, 9999, 99500, 1234500, 123456000}

FloatValues ==
    {Finite(FALSE, m) : m \in FloatMagnitudes} \cup {Finite(TRUE, m) : m \in FloatMagnitudes \ {0}}

FloatPrecisions == {-1, 0, 1, MaxPrecision}

FloatOperand(value) == [i |-> << >>, s |-> << >>, f |-> value]

\* The float components in storage: (1, 2, 3, 4) and (-2.5, 0.5, 9.5, 0), as
\* many of them as the operand has.
VectorStorage(numComponents) ==
    CASE numComponents = 2 ->
            { <<Finite(FALSE, 1000), Finite(FALSE, 2000)>>,
              <<Finite(TRUE, 2500), Finite(FALSE, 500)>> }
      [] numComponents = 3 ->
            { <<Finite(FALSE, 1000), Finite(FALSE, 2000), Finite(FALSE, 3000)>>,
              <<Finite(TRUE, 2500), Finite(FALSE, 500), Finite(FALSE, 9500)>> }
      [] numComponents = 4 ->
            { <<Finite(FALSE, 1000), Finite(FALSE, 2000), Finite(FALSE, 3000), Finite(FALSE, 4000)>>,
              <<Finite(TRUE, 2500), Finite(FALSE, 500), Finite(FALSE, 9500), Finite(FALSE, 0)>> }

VectorWidth == 5                \* widest field a vector component is given

VectorOperand(components) == [i |-> << >>, s |-> << >>, f |-> Finite(FALSE, 0), v |-> components]

\* The classes whose literal depends on the platform family.
PlatformSpelled == {"PSNAN", "NSNAN", "IQNAN"}

FloatInit ==
    /\ charSigned = FALSE /\ strayInt = nullptr /\ negTraps = FALSE
    /\ FindIdle
    /\ receiver = Receiver_buffer /\ dest = << >> /\ delivered = << >>
    /\ mem = << >> /\ formatNull = FALSE /\ destNull = FALSE /\ call = "handler"
    /\ destSize = 0 /\ pc = "handler" /\ fpos = 1 /\ args = << >> /\ argi = 0
    /\ ret = 0 /\ hiRead = 0 /\ termSent = 0 /\ reqChars = 0 /\ pass = 1
    /\ measured = << >> /\ fault = "none"
    /\ \/ /\ rname \in FloatHandlers
          /\ rbytes = 8
          /\ rop \in {FloatOperand(v) : v \in FloatValues \cup {Special(c) : c \in SpecialClasses}}
       \/ /\ rname = "Handler_v"
          /\ rbytes \in {8, 12, 16}
          /\ rop \in {VectorOperand(v) : v \in VectorStorage(rbytes \div 4)}
    /\ rspec \in [Flags : RenderFlagSets, Width : RenderWidths,
                  Precision : FloatPrecisions, TypeSizeBytes : {rbytes}]
    /\ rname = "Handler_v" => rspec.Width <= VectorWidth
    /\ windows \in (IF rop.f.cls \in PlatformSpelled THEN BOOLEAN ELSE {FALSE})
    /\ ConfigIdle
    /\ rconv = << >> /\ locals = NoLocals

FloatNext == HandlerReturns

SpecFloat == FloatInit /\ [][FloatNext]_vars

----------------------------------------------------------------------------
(* Fixed-point rendering.                                                  *)

\* The number a run of decimal digits denotes.
RECURSIVE DecimalOf(_, _)
DecimalOf(text, acc) ==
    IF text = << >> THEN acc ELSE DecimalOf(Tail(text), acc * 10 + (Head(text) - Ord("0")))

\* Where the decimal point of a text is; one past its end when it has none.
PointAt(text) ==
    IF \E k \in 1..Len(text) : text[k] = Ord(".")
    THEN CHOOSE k \in 1..Len(text) : text[k] = Ord(".") ELSE Len(text) + 1

AllDigits(text) == \A k \in 1..Len(text) : tIsdigit(text[k])

\* mag / FScale in units of 10^-p, rounded half up (p <= 4).
RoundHalfUp(mag, p) ==
    IF Pow10(p) >= FScale THEN mag * (Pow10(p) \div FScale)
    ELSE (mag \div (FScale \div Pow10(p)))
         + (IF 2 * (mag % (FScale \div Pow10(p))) >= FScale \div Pow10(p) THEN 1 ELSE 0)

FixedCall == Handled /\ rname = "Handler_f" /\ rop.f.cls = "NORM"

\* The conversion buffer without its sign.
Unsigned == Without(Number, {Ord("-"), Ord("+")})

\* C21: %f of a finite value with precision p renders the integer part, then
\* '.', then exactly p fraction digits ('.' is absent when p = 0), and the
\* digits are the value rounded half up to p places, a carry running left
\* through 9s and over the point; only digits, '.' and a sign appear.
C21_FixedPoint ==
    FixedCall =>
        /\ \A k \in 1..Len(Number) : tIsdigit(Number[k]) \/ Number[k] \in {Ord("."), Ord("-"), Ord("+")}
        /\ PointAt(Unsigned) > 1
        /\ AllDigits(SubSeq(Unsigned, 1, PointAt(Unsigned) - 1))
        /\ AllDigits(SubSeq(Unsigned, PointAt(Unsigned) + 1, Len(Unsigned)))
        /\ (PointAt(Unsigned) <= Len(Unsigned)) = (FloatPrecision(rspec) > 0)
        /\ Len(Unsigned) - PointAt(Unsigned) = (IF FloatPrecision(rspec) > 0 THEN FloatPrecision(rspec) ELSE -1)
        /\ DecimalOf(Without(Unsigned, {Ord(".")}), 0) = RoundHalfUp(rop.f.mag, FloatPrecision(rspec))

\* 9.5 with precision 0 is "10": the carry passed the first digit.
C21_Witness ==
    /\ FixedCall
    /\ rop.f = Finite(FALSE, 9500) /\ rspec.Precision = 0 /\ rspec.Flags = {} /\ rspec.Width = 0
    /\ delivered = Txt(<<"1", "0">>)

\* 2.5 with precision 0 is "3" and 0.996 with precision 2 is "1.00".
C21_Examples ==
    /\ (FixedCall /\ rop.f = Finite(FALSE, 2500) /\ rspec.Precision = 0) => Unsigned = Txt(<<"3">>)
    /\ (FixedCall /\ rop.f = Finite(FALSE, 996) /\ rspec.Precision = 2)
          => Unsigned = Txt(<<"1", ".", "0", "0">>)

----------------------------------------------------------------------------
(* Exponential rendering.                                                  *)

ExponentialCall == Handled /\ rname = "Handler_e" /\ rop.f.cls = "NORM"

\* What Handler_e delivered, without a sign in front.
Mantissa == IF delivered # << >> /\ delivered[1] \in SignChars THEN Tail(delivered) ELSE delivered

\* C22: %e of a finite value with precision p renders d.ddd with one leading
\* digit from 1 to 9 (0 for the value zero) and p fraction digits, then 'e',
\* a sign and two or three exponent digits; a mantissa that rounds up to 10
\* is rendered as 1 with the exponent one higher.
C22_Exponential ==
    (ExponentialCall /\ "LeadingZeros" \notin rspec.Flags) =>
        /\ Len(Mantissa) >= FloatPrecision(rspec) + 6
        /\ Mantissa[1] \in (IF rop.f.mag = 0 THEN {Ord("0")} ELSE Ord("1")..Ord("9"))
        /\ Mantissa[2] = Ord(".")
        /\ AllDigits(SubSeq(Mantissa, 3, FloatPrecision(rspec) + 2))
        /\ Mantissa[FloatPrecision(rspec) + 3] = Ord("e")
        /\ Mantissa[FloatPrecision(rspec) + 4] \in {Ord("+"), Ord("-")}
        /\ AllDigits(SubSeq(Mantissa, FloatPrecision(rspec) + 5, Len(Mantissa)))
        /\ Len(Mantissa) - (FloatPrecision(rspec) + 4) \in {2, 3}
        /\ (rop.f.mag = 9999 /\ rspec.Precision = 2)
              => Mantissa = Txt(<<"1", ".", "0", "0", "e", "+", "0", "1">>)

\* 1234.5 with precision 2 is "1.23e+03".
C22_NoCarryExample ==
    (ExponentialCall /\ rop.f = Finite(FALSE, 1234500) /\ rspec.Precision = 2 /\ rspec.Flags = {})
        => delivered = Txt(<<"1", ".", "2", "3", "e", "+", "0", "3">>)

----------------------------------------------------------------------------
(* The general format.                                                     *)

GeneralCall == Handled /\ rname = "Handler_g" /\ rop.f.cls = "NORM"

\* The rendering is exponential: it holds an 'e'.
HasExponent == \E k \in 1..Len(delivered) : delivered[k] = Ord("e")

\* C23: %g with precision p renders in fixed-point form exactly when
\* |v| < 10^p and in exponential form otherwise, whatever the sign of v.
C23_GeneralChoice ==
    GeneralCall => (~HasExponent <=> rop.f.mag < Pow10(FloatPrecision(rspec)) * FScale)

\* For values that are not negative the choice is the stated one (seen where
\* no sign is written over the rendering, that is without LeadingZeros).
C23_GeneralChoiceNonNegative ==
    (GeneralCall /\ ~rop.f.neg /\ "LeadingZeros" \notin rspec.Flags) => (~HasExponent <=> rop.f.mag < Pow10(FloatPrecision(rspec)) * FScale)

----------------------------------------------------------------------------
(* NaN and the infinities.                                                 *)

SpecialCall == Handled /\ rname \in {"Handler_e", "Handler_f", "Handler_g"} /\ rop.f.cls # "NORM"

\* What was delivered, the padding spaces left out.
Unpadded == Without(delivered, {Ord(" ")})

NaNClasses == {"PQNAN", "NQNAN", "PSNAN", "NSNAN", "IQNAN"}

\* The spelling by category: a '-' for the negative ones, "nan" or "inf", and
\* in a Windows build "(snan)" after a signaling and "(ind)" after the
\* indeterminate NaN.
Spelling ==
    (IF rop.f.neg THEN <<Ord("-")>> ELSE << >>)
    \o (IF rop.f.cls \in NaNClasses THEN Txt(<<"n", "a", "n">>) ELSE Txt(<<"i", "n", "f">>))
    \o (IF windows /\ rop.f.cls \in {"PSNAN", "NSNAN"} THEN Txt(<<"(", "s", "n", "a", "n", ")">>)
        ELSE IF windows /\ rop.f.cls = "IQNAN" THEN Txt(<<"(", "i", "n", "d", ")">>)
        ELSE << >>)

\* C24 as stated: every NaN renders "nan", or "-nan" when it is a negative
\* quiet NaN, +Infinity renders "inf" and -Infinity "-inf", for e, f and g
\* with every flag, width and precision, with no digit, '.' or 'e'.
C24_SpecialLiteralsAsStated ==
    SpecialCall =>
        /\ Unpadded = CASE rop.f.cls \in {"NQNAN", "IQNAN"} -> Txt(<<"-", "n", "a", "n">>)
                       [] rop.f.cls \in NaNClasses         -> Txt(<<"n", "a", "n">>)
                       [] rop.f.cls = "PINF"               -> Txt(<<"i", "n", "f">>)
                       [] rop.f.cls = "NINF"               -> Txt(<<"-", "i", "n", "f">>)
        /\ \A k \in 1..Len(delivered) :
              ~tIsdigit(delivered[k]) /\ delivered[k] \notin {Ord("."), Ord("e")}

\* C24: a special operand of e, f or g renders its literal for every flag,
\* width and precision: "nan" or "inf", with '-' in front for the negative
\* categories (negative quiet, negative signaling and indeterminate NaN,
\* -Infinity), and in a Windows build with "(snan)" after a signaling NaN and
\* "(ind)" after the indeterminate NaN; only spaces are ever added, so the
\* literal is never zero-padded and no digit, '.' or exponent is emitted.
C24_SpecialLiterals ==
    SpecialCall =>
        /\ Unpadded = Spelling
        /\ \A k \in 1..Len(delivered) : ~tIsdigit(delivered[k]) /\ delivered[k] # Ord(".")
        /\ Len(delivered) \in {Len(Spelling), Max(Len(Spelling), rspec.Width)}

\* "%012f" of -Infinity is "-inf" behind eight spaces.
C24_Witness ==
    /\ SpecialCall
    /\ rname = "Handler_f" /\ rop.f.cls = "NINF"
    /\ rspec.Flags = {"LeadingZeros"} /\ rspec.Width = MaxWidth
    /\ delivered = Repeat(Ord(" "), MaxWidth - 4) \o Txt(<<"-", "i", "n", "f">>)

----------------------------------------------------------------------------
(* Vectors.                                                                *)

VectorCall ==
    /\ Handled /\ rname = "Handler_v"
    /\ rspec.Flags \cap {"DecorativeFormatting", "DecorativeFormattingAlt"} = {}

\* What the fixed-point handler delivers for component c under the FormatSpec.
Component(c) == HandedAll(Handler_f(rspec, [f |-> rop.v[c]]))

\* Components c and up, ", " between two of them.
RECURSIVE Listed(_)
Listed(c) ==
    IF c > Len(rop.v) THEN << >>
    ELSE Component(c) \o (IF c < Len(rop.v) THEN Txt(<<",", " ">>) ELSE << >>) \o Listed(c + 1)

OneTwoThree == <<Finite(FALSE, 1000), Finite(FALSE, 2000), Finite(FALSE, 3000)>>

PlainVectorCall == VectorCall /\ rop.v = OneTwoThree /\ rspec.Precision = -1 /\ rspec.Width = 0

\* C25 as stated: at the initial default precision the vector (1.0, 2.0, 3.0)
\* renders "(1.000000, 2.000000, 3.000000)".
C25_VectorSixPlaces ==
    (PlainVectorCall /\ rspec.Flags = {}) =>
        delivered = Txt(<<"(", "1", ".", "0", "0", "0", "0", "0", "0", ",", " ",
                          "2", ".", "0", "0", "0", "0", "0", "0", ",", " ",
                          "3", ".", "0", "0", "0", "0", "0", "0", ")">>)

\* C25: a vector with no decorative flag renders '(', its size / 4 components
\* in storage order, each as the fixed-point handler renders it under the
\* directive's FormatSpec, ", " between two of them, and ')'; at the initial
\* default precision, which is 4, (1.0, 2.0, 3.0) renders
\* "(1.0000, 2.0000, 3.0000)".
C25_Vector ==
    /\ VectorCall =>
          /\ Len(rop.v) = rbytes \div 4
          /\ delivered = <<Ord("(")>> \o Listed(1) \o <<Ord(")")>>
    /\ (PlainVectorCall /\ rspec.Flags = {}) =>
          delivered = Txt(<<"(", "1", ".", "0", "0", "0", "0", ",", " ",
                            "2", ".", "0", "0", "0", "0", ",", " ",
                            "3", ".", "0", "0", "0", "0", ")">>)

\* The default size of v is 12: three components at the default precision.
C25_Witness ==
    /\ PlainVectorCall /\ rspec.Flags = {} /\ rbytes = 12
    /\ Len(delivered) = 24

----------------------------------------------------------------------------
(* The exponential rendering with LeadingZeros.                            *)

ZeroPaddedExponentialCall ==
    /\ ExponentialCall /\ "LeadingZeros" \in rspec.Flags
    /\ FloatPrecision(rspec) > 0
    /\ rop.f.neg \/ "ForcePosOrNegSign" \in rspec.Flags

\* What the same call delivers when LeadingZeros is not among the flags.
WithoutLeadingZeros ==
    HandedAll(Handler_e([rspec EXCEPT !.Flags = @ \ {"LeadingZeros"}], rop))

\* C29: with LeadingZeros the exponential rendering of a negative or
\* ForcePosOrNegSign value is the sign, then the padding zeros, then the
\* mantissa and exponent exactly as rendered without LeadingZeros, for every
\* width, widths below the length of the text included.
C29_SignBeforeZeros ==
    ZeroPaddedExponentialCall =>
        /\ delivered # << >>
        /\ delivered[1] = WithoutLeadingZeros[1]
        /\ \E k \in 0..maxLeadingZeroes :
              Tail(delivered) = Repeat(Ord("0"), k) \o Tail(WithoutLeadingZeros)

\* When the width leaves room for at least one zero the sign takes the place
\* of the first zero and the mantissa is whole.
C29_SignOverAZero ==
    (ZeroPaddedExponentialCall /\ rspec.Width > Len(WithoutLeadingZeros) - 1) =>
        \E k \in 0..maxLeadingZeroes :
            delivered = <<WithoutLeadingZeros[1]>> \o Repeat(Ord("0"), k) \o Tail(WithoutLeadingZeros)

----------------------------------------------------------------------------
(* The Receiver over a sequence of Receive calls.                          *)

\* d is the beginning of e.
IsPrefix(d, e) == Len(d) <= Len(e) /\ SubSeq(e, 1, Len(d)) = d

\* C28: across any sequence of Receive calls NumReceived never decreases and
\* no stored character is overwritten; a receiver bound to a string with
\* limit C stores exactly NumReceived <= C characters; a Receive that arrives
\* when the receiver is full, or that hands over no character (null or empty
\* text), changes nothing.
C28_PurelyAdditive ==
    [][(pc = "recv" /\ pc' = "recv") =>
          /\ receiver'.NumReceived >= receiver.NumReceived
          /\ IsPrefix(dest, dest') /\ IsPrefix(receiver.Elems, receiver'.Elems)
          /\ Bound(receiver') =>
                (Len(dest') = receiver'.NumReceived /\ receiver'.NumReceived <= receiver'.ReceiveLimit)
          /\ (Bound(receiver) /\ receiver.NumReceived >= receiver.ReceiveLimit) =>
                (receiver' = receiver /\ dest' = dest)
          /\ delivered' = delivered => (receiver' = receiver /\ dest' = dest)]_vars

\* The stated properties hold of every call that passes no negative count.
C28_AdditiveFromZero ==
    [][(pc = "recv" /\ pc' = "recv" /\ receiver'.NumReceived >= receiver.NumReceived) =>
          /\ IsPrefix(dest, dest') /\ IsPrefix(receiver.Elems, receiver'.Elems)
          /\ Bound(receiver') =>
                (Len(dest') = receiver'.NumReceived /\ receiver'.NumReceived <= receiver'.ReceiveLimit)
          /\ (Bound(receiver) /\ receiver.NumReceived >= receiver.ReceiveLimit) =>
                (receiver' = receiver /\ dest' = dest)
          /\ delivered' = delivered => (receiver' = receiver /\ dest' = dest)]_vars

----------------------------------------------------------------------------
(* The scratch buffers of the integer helpers: char buf[128] with curr      *)
(* starting at &buf[126], char buf[1024] with curr starting at &buf[1022].  *)
(* One handler call per FormatSpec whose width is near the size of the      *)
(* buffer.                                                                  *)

NativeBufSize == 128
TacentBufSize == 1024

BufSize(spec) == IF spec.TypeSizeBytes \in {4, 8} THEN NativeBufSize ELSE TacentBufSize

\* rawValue as the digit loop of either helper receives it.
ScratchMagnitude(name, spec, data) ==
    IF spec.TypeSizeBytes \in {4, 8}
    THEN Magnitude(RawValue(data, spec.TypeSizeBytes * 8), name \notin SignedHandlers,
                   spec.TypeSizeBytes * 8, BaseOf(name))
    ELSE MagnitudeTacent(RawValueTacent(data), name \notin SignedHandlers,
                         spec.TypeSizeBytes * 8, BaseOf(name))

\* The sign and prefix appended to convBuf ahead of the digits: remWidth is
\* the width less their length.
ScratchFront(name, spec, data) ==
    SignText(spec, IF spec.TypeSizeBytes \in {4, 8} THEN RawValue(data, spec.TypeSizeBytes * 8)
                   ELSE RawValueTacent(data),
             name \notin SignedHandlers, spec.TypeSizeBytes * 8, BaseOf(name))
    \o PrefixText(spec, ScratchMagnitude(name, spec, data), name = "Handler_X", BaseOf(name), FALSE)

\* Everything written into buf below the terminator: the digits of the digit
\* loop and the zeros of the zero fill, one character per *curr = ...; curr--.
ScratchText(name, spec, data) ==
    ZeroFilled(DigitFlags(spec), spec.Width - Len(ScratchFront(name, spec, data)),
               DigitLoop(ScratchMagnitude(name, spec, data), DigitPrecision(spec), BaseOf(name),
                         name = "Handler_X", << >>))

\* The index of the lowest element of buf that is written.
LowestWritten(name, spec, data) == BufSize(spec) - 1 - Len(ScratchText(name, spec, data))

BufferOverrun(name, spec, data) == LowestWritten(name, spec, data) < 0

BufHandlers == {"Handler_d", "Handler_u", "Handler_x", "Handler_X"}

\* Widths that, with LeadingZeros, fill the buffer up to its first element
\* and one past it.
NearSize(size) == {size - 2, size - 1, size}

BufSpecs(bytes) ==
    { [Flags |-> {Flag_LeadingZeros}, Width |-> w, Precision |-> -1, TypeSizeBytes |-> bytes] :
         w \in {0, 5} \cup NearSize(IF bytes \in {4, 8} THEN NativeBufSize ELSE TacentBufSize) }
    \cup { [Flags |-> {}, Width |-> 0, Precision |-> p, TypeSizeBytes |-> bytes] :
         p \in {0, MaxPrecision} }

BufInit ==
    /\ PlatformIdle /\ ConfigIdle /\ FindIdle
    /\ receiver = Receiver_buffer /\ dest = << >> /\ delivered = << >>
    /\ mem = << >> /\ formatNull = FALSE /\ destNull = FALSE /\ call = "handler"
    /\ destSize = 0 /\ pc = "handler" /\ fpos = 1 /\ args = << >> /\ argi = 0
    /\ ret = 0 /\ hiRead = 0 /\ termSent = 0 /\ reqChars = 0 /\ pass = 1
    /\ measured = << >> /\ fault = "none"
    /\ rname \in BufHandlers
    /\ rbytes \in {4, 8}
    /\ rspec \in BufSpecs(rbytes)
    /\ rop \in {op \in RenderOperands(rname, rbytes) : ~NegationOverflows(rname, rspec, op)}
    /\ rconv = << >> /\ locals = NoLocals

\* The handler runs with every write inside buf, and returns.
HandlerFits ==
    /\ ~BufferOverrun(rname, rspec, rop)
    /\ HandlerReturns

\* The digit loop or the zero fill stores below buf[0]: the bytes under the
\* array are overwritten, and what the call does after that is not defined.
HandlerOverruns ==
    /\ pc = "handler"
    /\ BufferOverrun(rname, rspec, rop)
    /\ pc' = "dead"
    /\ fault' = "overrun"
    /\ UNCHANGED <<renderVars, platformVars, configVars, findVars, sinkVars, mem, formatNull, destNull,
                   call, destSize, fpos, args, argi, ret, hiRead, termSent, reqChars, pass,
                   measured>>

BufNext == HandlerFits \/ HandlerOverruns

SpecBuf == BufInit /\ [][BufNext]_vars

\* C27: for every FormatSpec reachable from a format string and every
\* operand, the integer helpers write no element of their scratch buffer
\* below buf[0]: the digit loop driven by the precision and the zero fill
\* driven by the width stay within buf[0..126] (native) and buf[0..1022]
\* (128 bits and wider).
C27_CursorInBuffer ==
    /\ LowestWritten(rname, rspec, rop) >= 0
    /\ fault # "overrun"

\* The writes stay inside while the width (with LeadingZeros) and the
\* precision are below the size of the buffer.
C27_CursorInBufferBelowSize ==
    (rspec.Width < BufSize(rspec) /\ rspec.Precision < BufSize(rspec)) =>
        (LowestWritten(rname, rspec, rop) >= 0 /\ fault # "overrun")

----------------------------------------------------------------------------
(* HandlerHelper_FloatNormal run one loop iteration at a time, as Handler_f *)
(* calls it for a precision that came from a '*' operand.                   *)

MaxDigits == 6                 \* fraction digits followed before the run is left alone

StarPrecisions == {0 - 3, 0 - 2, 0 - 1, 0, 1, 3}

LoopValues == {Finite(n, m) : n \in BOOLEAN, m \in {125, 500, 2500, 9999, 1234500}}

LoopInit ==
    /\ PlatformIdle /\ ConfigIdle /\ FindIdle
    /\ receiver = Receiver_buffer /\ dest = << >> /\ delivered = << >>
    /\ mem = << >> /\ formatNull = FALSE /\ destNull = FALSE /\ call = "handler"
    /\ destSize = 0 /\ pc = "handler" /\ fpos = 1 /\ args = << >> /\ argi = 0
    /\ ret = 0 /\ hiRead = 0 /\ termSent = 0 /\ reqChars = 0 /\ pass = 1
    /\ measured = << >> /\ fault = "none"
    /\ rname = "Handler_f" /\ rbytes = 8
    /\ rspec \in [Flags : {{}, {Flag_LeadingZeros}}, Width : {0, 5}, Precision : StarPrecisions,
                  TypeSizeBytes : {rbytes}]
    /\ rop \in {FloatOperand(v) : v \in LoopValues}
    /\ rconv = << >> /\ locals = NoLocals

\* buf.Append('0') up to if (precision > 0) buf.Append('.').
EnterHelper ==
    /\ pc = "handler"
    /\ locals' = WithPoint(IntegerDigits(<<Ord("0")>>, rop.f.mag, LeadingDec(rop.f.mag),
                                         FloatPrecision(rspec), FALSE),
                           LeadingDec(rop.f.mag) >= FScale)
    /\ pc' = "fraction"
    /\ UNCHANGED <<rname, rspec, rop, rbytes, rconv, platformVars, configVars, findVars, sinkVars, mem,
                   formatNull, destNull, call, destSize, fpos, args, argi, ret, hiRead, termSent,
                   reqChars, pass, measured, fault>>

\* The characters of buf after the point, or after the integer part when
\* there is no point.
FractionLen(buf) ==
    IF PointAt(buf) <= Len(buf) THEN Len(buf) - PointAt(buf)
    ELSE Len(buf) - 1 - Len(IntegerDigits(<< >>, rop.f.mag, LeadingDec(rop.f.mag), 0, FALSE).buf)
                  - (IF LeadingDec(rop.f.mag) >= FScale THEN 0 ELSE 1)

\* One iteration of while (precision--): the test finds precision nonzero,
\* decrements it, and the body appends a digit.
FractionDigit ==
    /\ pc = "fraction"
    /\ locals.precision # 0
    /\ FractionLen(locals.buf) < MaxDigits
    /\ locals' = [buf |-> Append(locals.buf, Ord("0") + ((locals.mag * 10) \div FScale)),
                  mag |-> (locals.mag * 10) % FScale,
                  precision |-> locals.precision - 1]
    /\ UNCHANGED <<rname, rspec, rop, rbytes, rconv, platformVars, configVars, findVars, sinkVars, callVars>>

\* What HandlerHelper_FloatNormal hands back once the loop has ended.
HelperResult ==
    IF Flag_LeadingZeros \notin rspec.Flags /\ FloatSign(rspec, rop.f) = "NeedsNeg"
    THEN [conv |-> <<Ord("-")>> \o Rounded(locals), ret |-> "None"]
    ELSE [conv |-> Rounded(locals), ret |-> FloatSign(rspec, rop.f)]

\* The test finds precision zero: the rounding, the sign, and the tail of
\* Handler_f.
LeaveHelper ==
    /\ pc = "fraction"
    /\ locals.precision = 0
    /\ HandAll(FloatJustified(rspec, HelperResult))
    /\ rconv' = HelperResult.conv
    /\ pc' = "handled"
    /\ UNCHANGED <<rname, rspec, rop, rbytes, locals, platformVars, configVars, findVars, mem, formatNull,
                   destNull, call, destSize, fpos, args, argi, ret, hiRead, termSent, reqChars,
                   pass, measured, fault>>

LoopNext == EnterHelper \/ FractionDigit \/ LeaveHelper

SpecLoop == LoopInit /\ [][LoopNext]_vars

\* The helper is not held up: a step that can be taken is taken.
SpecLoopFair == SpecLoop /\ WF_vars(LoopNext)

\* C26: the renderers emit a bounded number of characters for every
\* precision a '*' operand can supply, a negative one included: the loop
\* that writes the fraction digits of %f runs at most max(precision, 0)
\* times, precision being the default when -1 was given.
C26_BoundedDigits ==
    pc \in {"fraction", "handled"} => FractionLen(locals.buf) <= Max(FloatPrecision(rspec), 0)

\* For a precision of -1 or more the helper returns, with what the handler
\* taken as one step delivers.
C26_ReturnsForPrecisionFromDefault ==
    rspec.Precision >= 0 - 1 => <>(pc = "handled" /\ delivered = HandedAll(Handler_f(rspec, rop)))

\* For a precision below -1 the loop is still running after MaxDigits digits.
C26_StillRunning ==
    (pc = "fraction" /\ rspec.Precision < 0 - 1) => locals.precision # 0

----------------------------------------------------------------------------
(* Two calls of Process on threads of their own, each with its own receiver, *)
(* format and operands; the settings are changed only before the calls.      *)

NumThreads == 2

\* A format and its operands, for one call.
Job(text, ops) == [mem |-> Txt(text) \o <<NUL>>, ops |-> ops]

IntArg(n)      == [i |-> U64(n), s |-> << >>, f |-> Finite(FALSE, 0)]
DblArg(neg, m) == [i |-> U64(0), s |-> << >>, f |-> Finite(neg, m)]

Jobs ==
    { Job(<<"%", "f">>, <<DblArg(FALSE, 2500)>>),
      Job(<<"%", ".", "1", "f", "|", "%", "f">>, <<DblArg(FALSE, 2500), DblArg(TRUE, 125)>>),
      Job(<<"%", "+", "3", "d", "%", "d">>, <<IntArg(7), IntArg(0 - 3)>>),
      Job(<<"a", "%", ".", "*", "f", "%", "%">>, <<IntArg(1), DblArg(FALSE, 9999)>>) }

\* The locals of Process as a call begins, with a receiver writing to dest.
Started(job) ==
    [mem |-> job.mem, ops |-> job.ops, fpos |-> 1, argi |-> 0, receiver |-> Receiver_string,
     dest |-> << >>, spec |-> FormatSpec, dpos |-> 0, tpos |-> 0, pc |-> "scan"]

\* The thread after receiver.Receive(c) and a step of n over the format.
ThreadReceive(th, c, n) ==
    [th EXCEPT !.receiver = Receive_chr(Sink(th.receiver, th.dest), c).r,
               !.dest = Receive_chr(Sink(th.receiver, th.dest), c).d,
               !.fpos = @ + n]

\* The directive at the thread's format pointer, parsed into a FormatSpec
\* declared in the loop body.
ThreadDirective(th) == ParseDirective(th.mem, th.fpos, SubSeq(th.ops, th.argi + 1, Len(th.ops)))

ThreadHandler(th) == FindHandler(ReadAt(th.mem, ThreadDirective(th).pos))

ThreadCalls(th) ==
    HandlerCalls(ThreadDirective(th), ThreadHandler(th),
                 th.ops[th.argi + ThreadDirective(th).used + 1])

\* The thread after the directive at its format pointer.
ThreadHandled(th) ==
    [th EXCEPT !.receiver = ReceiveAll(Sink(th.receiver, th.dest), ThreadCalls(th)).r,
               !.dest = ReceiveAll(Sink(th.receiver, th.dest), ThreadCalls(th)).d,
               !.spec = [ThreadDirective(th).spec EXCEPT
                            !.TypeSizeBytes = ResolvedSize(ThreadDirective(th).spec,
                                                           ThreadHandler(th))],
               !.dpos = th.fpos,
               !.tpos = ThreadDirective(th).pos,
               !.argi = @ + ThreadDirective(th).used + 1,
               !.fpos = ThreadDirective(th).pos + 1]

\* One iteration of the loop of Process, or the statement after the loop.
Iteration(th) ==
    IF ReadAt(th.mem, th.fpos) = NUL
    THEN [ThreadReceive(th, NUL, 0) EXCEPT !.pc = "done"]
    ELSE IF ReadAt(th.mem, th.fpos) # Ord("%")
    THEN ThreadReceive(th, th.mem[th.fpos], 1)
    ELSE IF ~IsValidFormatSpecifierCharacter(th.mem[th.fpos + 1])
    THEN ThreadReceive(th, th.mem[th.fpos + 1], 2)
    ELSE ThreadHandled(th)

\* An iteration that leaves the precision of its directive in DefaultPrecision.
ProcessStep_StoresPrecision(th) ==
    [th |-> Iteration(th),
     config |-> IF Iteration(th).dpos = th.fpos /\ th.dpos # th.fpos /\ Iteration(th).spec.Precision >= 0
                THEN [config EXCEPT !.DefaultPrecision = Iteration(th).spec.Precision]
                ELSE config]

\* The locals of the call and the globals after one iteration.
ProcessStep(th) == [th |-> Iteration(th), config |-> config]

\* The call run from th to its return with no other thread taking a step.
RECURSIVE RunAlone(_)
RunAlone(th) == IF th.pc = "done" THEN th ELSE RunAlone(Iteration(th))

NoneBegun == \A t \in 1..NumThreads : threads[t] = Started(threads[t])

SetPrecisions == {2, DefaultPrecision}
Channels      == {"tChannel_Systems", "tChannel_All"}

PairInit ==
    /\ PlatformIdle /\ FindIdle /\ SinkIdle /\ CallIdle /\ RenderIdle
    /\ config = InitialConfig
    /\ threads \in [1..NumThreads -> {Started(job) : job \in Jobs}]

tSetDefaultPrecision(precision) ==
    /\ NoneBegun
    /\ config' = [config EXCEPT !.DefaultPrecision = precision]
    /\ UNCHANGED <<threads, platformVars, findVars, sinkVars, callVars, renderVars>>

tSetChannels(channelsToSee) ==
    /\ NoneBegun
    /\ config' = [config EXCEPT !.OutputChannels = channelsToSee]
    /\ UNCHANGED <<threads, platformVars, findVars, sinkVars, callVars, renderVars>>

tSetStdoutRedirectCallback(cb) ==
    /\ NoneBegun
    /\ config' = [config EXCEPT !.StdoutRedirectCallback = cb]
    /\ UNCHANGED <<threads, platformVars, findVars, sinkVars, callVars, renderVars>>

tSetSupplementaryDebuggerOutput(enable) ==
    /\ NoneBegun
    /\ config' = [config EXCEPT !.SupplementaryDebuggerOutput = enable]
    /\ UNCHANGED <<threads, platformVars, findVars, sinkVars, callVars, renderVars>>

\* The thread t is scheduled for one iteration of its call.
ThreadStep(t) ==
    /\ threads[t].pc = "scan"
    /\ threads' = [threads EXCEPT ![t] = ProcessStep(threads[t]).th]
    /\ config' = ProcessStep(threads[t]).config
    /\ UNCHANGED <<platformVars, findVars, sinkVars, callVars, renderVars>>

PairNext ==
    \/ \E precision \in SetPrecisions : tSetDefaultPrecision(precision)
    \/ \E channelsToSee \in Channels : tSetChannels(channelsToSee)
    \/ \E cb \in {nullptr, 1} : tSetStdoutRedirectCallback(cb)
    \/ \E enable \in BOOLEAN : tSetSupplementaryDebuggerOutput(enable)
    \/ \E t \in 1..NumThreads : ThreadStep(t)

SpecPair == PairInit /\ [][PairNext]_vars

\* The text of the directive the thread handled last, up to its type character.
LastDirective(th) == SubSeq(th.mem, th.dpos + 1, th.tpos - 1)

Chars(text) == {text[k] : k \in 1..Len(text)}

Has(text, chars) == \E k \in 1..Len(text) : text[k] \in chars

\* The FormatSpec holds nothing the text of its own directive did not put
\* there: FormatSpec() wherever the directive is silent.
FreshSpec(th) ==
    th.dpos > 0 =>
        /\ th.spec.Flags \subseteq {FlagOf(c) : c \in Chars(LastDirective(th)) \cap FlagChars}
        /\ ~Has(SubSeq(LastDirective(th), 1, PointAt(LastDirective(th)) - 1),
                {Ord("*")} \cup {c \in 0..255 : tIsdigit(c)}) => th.spec.Width = FormatSpec.Width
        /\ ~Has(LastDirective(th), {Ord(".")}) => th.spec.Precision = FormatSpec.Precision
        /\ ~Has(LastDirective(th), {Ord(":"), Ord("!"), Ord("|")})
              => th.spec.TypeSizeBytes
                   = HandlerInfos[FindHandler(th.mem[th.tpos]) + 1].DefaultByteSize

============================================================================
